---- MODULE Spec2Model ----
(***************************************************************************)
(* Job-board scrapers: EnhancedPulteJobScraper (enhanced_pulte_scraper.py), *)
(* SimpleWorkdayAPIJobScraper (workday_simple_api.py) and the transport of  *)
(* SimplePulteJobScraper (simple_pulte_scraper.py).                         *)
(*                                                                         *)
(* Python values are tagged records; Python strings are sequences of       *)
(* one-character strings, so that strip, split, lower and urljoin are      *)
(* computed and not assumed.  Dictionary keys are TLA+ strings.            *)
(***************************************************************************)
EXTENDS Integers, Sequences, FiniteSets, TLC

VARIABLES
    \* normalizer: the raw record, the clock, the two results, the position
    job, now, enh_out, wd_out, n_pc,
    \* configuration: self.max_retries, self.delay
    max_retries, delay,
    \* transport: the scraper class, the HTTP method, the call in progress
    t_kind, t_method, t_call,
    \* scrape_jobs_api: position, all_jobs, offset, one entry per iteration
    \* and the upstream sizes all answers so far are consistent with
    w_pc, w_all_jobs, w_offset, w_pages, w_cons,
    \* EnhancedPulteJobScraper.scrape_jobs: position, the calls made so far,
    \* len(endpoints), the endpoint and parameter shape in hand
    e_pc, e_trace, e_nendpoints, e_idx, e_shape,
    \* paginate_api_endpoint: all_jobs, offset, page, one entry per iteration,
    \* the upstream sizes all answers so far are consistent with
    e_all_jobs, e_offset, e_page, e_pages, e_cons,
    \* scrape_jobs: jobs, the value returned; self.driver; the Selenium loop
    e_jobs, e_result, e_driver, s_all_jobs, s_page,
    \* SimplePulteJobScraper.scrape_jobs: position, the site being scraped,
    \* all_jobs, visited_urls, urls_to_visit, the URLs requested so far
    m_pc, m_site, m_all_jobs, m_visited_urls, m_urls_to_visit, m_fetched,
    \* one call of test_api_endpoint: position, index of the parameter set in
    \* turn, the requests issued so far, the returned pair
    p_pc, p_shape, p_log, p_ret,
    \* one call of discover_workday_endpoints: position, the quoted strings of
    \* the landing page, the returned list
    d_pc, d_content, d_ret,
    \* main: position, the list 'jobs' it holds, the CSV file written
    x_pc, x_jobs, x_csv,
    \* a pagination run and its replay: the driver, which of the two runs is
    \* going, its locals and the cursors it requested, the first run as it
    \* was left, the upstream's answers to the first run
    r_driver, r_phase, r_run, r_first, r_tape,
    \* SimpleWorkdayAPIJobScraper.__init__ and build_api_url: position, the
    \* base_url given, self.company_info, the API URL built
    u_pc, u_url, u_info, u_api,
    \* a pagination run and its HTTP log: the driver, its locals, the number
    \* of the page in hand, the attempts and sleeps since the page before
    h_driver, h_run, h_page, h_log

\* ------------------------------------------------------------------------
\* Python / JSON values
\* ------------------------------------------------------------------------
JNull == [t |-> "null"]

JStr(s) == [t |-> "str", s |-> s]

JNum(n) == [t |-> "num", n |-> n]

JList(l) == [t |-> "list", l |-> l]

JDict(d) == [t |-> "dict", d |-> d]

\* an exception raised while evaluating an expression
Raise == [t |-> "raise"]

\* the dictionary with no key
EmptyDict == [k \in {} |-> JNull]

\* bool(v)
Truthy(v) ==
    CASE v.t = "str"  -> v.s # <<>>
      [] v.t = "num"  -> v.n # 0
      [] v.t = "list" -> v.l # <<>>
      [] v.t = "dict" -> DOMAIN v.d # {}
      [] OTHER        -> FALSE

\* d.get(k) on a dict value d
Get(d, k) == IF k \in DOMAIN d.d THEN d.d[k] ELSE JNull

\* d.get(k, default) on a dict value d
GetDef(d, k, default) == IF k \in DOMAIN d.d THEN d.d[k] ELSE default

\* ------------------------------------------------------------------------
\* Python strings
\* ------------------------------------------------------------------------
IsSpace(c) == c \in {" ", "\n", "\r", "\t"}

RECURSIVE LStrip(_)
LStrip(s) == IF s # <<>> /\ IsSpace(Head(s)) THEN LStrip(Tail(s)) ELSE s

RECURSIVE RStrip(_)
RStrip(s) ==
    IF s # <<>> /\ IsSpace(s[Len(s)]) THEN RStrip(SubSeq(s, 1, Len(s) - 1)) ELSE s

\* str.strip()
Strip(s) == RStrip(LStrip(s))

RECURSIVE LStripSlash(_)
LStripSlash(s) == IF s # <<>> /\ Head(s) = "/" THEN LStripSlash(Tail(s)) ELSE s

RECURSIVE RStripSlash(_)
RStripSlash(s) ==
    IF s # <<>> /\ s[Len(s)] = "/" THEN RStripSlash(SubSeq(s, 1, Len(s) - 1)) ELSE s

\* str.strip('/')
StripSlash(s) == RStripSlash(LStripSlash(s))

UpperToLower ==
    [c \in {"A","B","C","D","E","F","G","H","I","J","K","L","M","N","O","P",
            "Q","R","S","T","U","V","W","X","Y","Z"} |->
        CASE c = "A" -> "a" [] c = "B" -> "b" [] c = "C" -> "c" [] c = "D" -> "d"
          [] c = "E" -> "e" [] c = "F" -> "f" [] c = "G" -> "g" [] c = "H" -> "h"
          [] c = "I" -> "i" [] c = "J" -> "j" [] c = "K" -> "k" [] c = "L" -> "l"
          [] c = "M" -> "m" [] c = "N" -> "n" [] c = "O" -> "o" [] c = "P" -> "p"
          [] c = "Q" -> "q" [] c = "R" -> "r" [] c = "S" -> "s" [] c = "T" -> "t"
          [] c = "U" -> "u" [] c = "V" -> "v" [] c = "W" -> "w" [] c = "X" -> "x"
          [] c = "Y" -> "y" [] c = "Z" -> "z"]

\* str.lower()
Lower(s) == [i \in 1..Len(s) |-> IF s[i] \in DOMAIN UpperToLower THEN UpperToLower[s[i]] ELSE s[i]]

\* sub in s
Contains(s, sub) ==
    \E i \in 0..(Len(s) - Len(sub)) : SubSeq(s, i + 1, i + Len(sub)) = sub

\* index of the last occurrence of character c in s, 0 when absent
LastIndex(s, c) ==
    IF \E i \in 1..Len(s) : s[i] = c
    THEN CHOOSE i \in 1..Len(s) : s[i] = c /\ \A j \in (i + 1)..Len(s) : s[j] # c
    ELSE 0

Range(f) == { f[i] : i \in DOMAIN f }

\* s.split(c)[-1]
SplitLast(s, c) == SubSeq(s, LastIndex(s, c) + 1, Len(s))

Digit(n) == <<"0","1","2","3","4","5","6","7","8","9">>[n + 1]

RECURSIVE NumStr(_)
NumStr(n) == IF n < 10 THEN <<Digit(n)>> ELSE NumStr(n \div 10) \o <<Digit(n % 10)>>

\* str(v); the repr of a list or dict is abbreviated to its brackets
PyStr(v) ==
    CASE v.t = "str"  -> v.s
      [] v.t = "num"  -> NumStr(v.n)
      [] v.t = "list" -> <<"[", "]">>
      [] v.t = "dict" -> <<"{", "}">>
      [] OTHER        -> <<"N","o","n","e">>

\* ------------------------------------------------------------------------
\* urllib.parse.urljoin, for a base of the form scheme://host/path and a
\* url without query, fragment or dot segments
\* ------------------------------------------------------------------------
\* index of the n-th "/" of s, 0 when there are fewer
RECURSIVE NthSlash(_, _, _)
NthSlash(s, n, from) ==
    IF from > Len(s) THEN 0
    ELSE IF s[from] = "/"
         THEN (IF n = 1 THEN from ELSE NthSlash(s, n - 1, from + 1))
         ELSE NthSlash(s, n, from + 1)

\* scheme://host of a base URL
SchemeHost(b) ==
    IF NthSlash(b, 3, 1) = 0 THEN b ELSE SubSeq(b, 1, NthSlash(b, 3, 1) - 1)

\* the base URL up to and including the last "/" of its path
BaseDir(b) ==
    IF NthSlash(b, 3, 1) = 0 THEN b \o <<"/">> ELSE SubSeq(b, 1, LastIndex(b, "/"))

\* the url carries its own scheme (a ":" before the first "/")
HasScheme(u) ==
    \E i \in 2..Len(u) : u[i] = ":" /\ \A j \in 1..(i - 1) : u[j] \notin {"/", ":"}

urljoin(b, u) ==
    IF u = <<>> THEN b
    ELSE IF HasScheme(u) THEN u
    ELSE IF Head(u) = "/" THEN SchemeHost(b) \o u
    ELSE BaseDir(b) \o u

\* ------------------------------------------------------------------------
\* Configuration of a scraper object (__init__)
\* ------------------------------------------------------------------------
\* self.base_url, here https://h/PGI
base_url == <<"h","t","t","p","s",":","/","/","h","/","P","G","I">>

\* 'PulteGroup'
Enh_company == <<"P","u","l","t","e","G","r","o","u","p">>

\* self.company_info['company'].title()
Wd_company == <<"P","u","l","t","e","g","r","o","u","p">>

\* datetime.now().isoformat() at clock tick n
IsoFormat(n) == <<"T">> \o NumStr(n)

\* ------------------------------------------------------------------------
\* Record normalizer
\* ------------------------------------------------------------------------
NoField == ""

\* the first key of fields whose value in the dict j is truthy
RECURSIVE FirstTruthyField(_, _)
FirstTruthyField(j, fields) ==
    IF fields = <<>> THEN NoField
    ELSE IF Truthy(Get(j, Head(fields))) THEN Head(fields)
    ELSE FirstTruthyField(j, Tail(fields))

sLocation == <<"l","o","c","a","t","i","o","n">>

Enh_id_fields == <<"id", "jobId", "postingId", "requisitionId">>

Enh_title_fields == <<"title", "jobTitle", "positionTitle", "name">>

Enh_date_fields == <<"postedOn", "postingDate", "datePosted", "createdDate">>

Enh_job_id(j) ==
    LET f == FirstTruthyField(j, Enh_id_fields)
    IN  IF f = NoField THEN JStr(<<>>) ELSE JStr(PyStr(j.d[f]))

Enh_title(j) ==
    LET f == FirstTruthyField(j, Enh_title_fields)
    IN  IF f = NoField THEN JStr(<<>>) ELSE j.d[f]

\* the loop over job['bulletFields'] when it is a list
RECURSIVE Enh_bullet_scan(_)
Enh_bullet_scan(l) ==
    IF l = <<>> THEN JStr(<<>>)
    ELSE LET field == Head(l)
         IN  IF field.t # "dict" THEN Raise
             ELSE LET ty == GetDef(field, "type", JStr(<<>>))
                  IN  IF ty.t # "str" THEN Raise
                      ELSE IF Contains(Lower(ty.s), sLocation)
                           THEN GetDef(field, "value", JStr(<<>>))
                           ELSE Enh_bullet_scan(Tail(l))

Enh_location(j) ==
    LET lt == Get(j, "locationsText")
        loc == Get(j, "location")
        bf == Get(j, "bulletFields")
    IN  IF Truthy(lt) THEN lt
        ELSE IF Truthy(loc)
             THEN (IF loc.t = "dict" THEN GetDef(loc, "name", JStr(<<>>))
                   ELSE JStr(PyStr(loc)))
        ELSE IF Truthy(bf)
             THEN (IF bf.t = "list" THEN Enh_bullet_scan(bf.l) ELSE Raise)
        ELSE JStr(<<>>)

Enh_posting_date(j) ==
    LET f == FirstTruthyField(j, Enh_date_fields)
    IN  IF f = NoField THEN JStr(<<>>) ELSE j.d[f]

Enh_url(j) ==
    LET ep == Get(j, "externalPath")
        u == Get(j, "url")
        id == Enh_job_id(j)
    IN  IF Truthy(ep)
        THEN (IF ep.t = "str" THEN JStr(urljoin(base_url, ep.s)) ELSE Raise)
        ELSE IF Truthy(u) THEN u
        ELSE IF Truthy(id) THEN JStr(base_url \o <<"/">> \o id.s)
        ELSE JStr(<<>>)

\* EnhancedPulteJobScraper.process_job_data; tick is the clock reading
Enh_process_job_data(j, tick) ==
    IF j.t # "dict" THEN JNull
    ELSE LET location == Enh_location(j)
             url == Enh_url(j)
         IN  IF location = Raise \/ url = Raise THEN JNull
             ELSE JDict([job_id       |-> Enh_job_id(j),
                         title        |-> Enh_title(j),
                         location     |-> location,
                         posting_date |-> Enh_posting_date(j),
                         url          |-> url,
                         company      |-> JStr(Enh_company),
                         scraped_at   |-> JStr(IsoFormat(tick))])

Wd_id_fields == <<"id", "jobId", "postingId", "requisitionId", "externalJobId">>

Wd_title_fields == <<"title", "jobTitle", "positionTitle", "name", "jobName">>

Wd_date_fields == <<"postedOn", "postingDate", "datePosted", "createdDate", "publishedDate">>

\* Method 1: the first bulletFields entry that is a non-blank string
RECURSIVE Wd_bullet_id(_)
Wd_bullet_id(l) ==
    IF l = <<>> THEN <<>>
    ELSE IF Head(l).t = "str" /\ Strip(Head(l).s) # <<>> THEN Strip(Head(l).s)
    ELSE Wd_bullet_id(Tail(l))

\* Methods 1 to 3; Raise when externalPath is truthy and not a string
Wd_job_id(j) ==
    LET bf == Get(j, "bulletFields")
        ep == Get(j, "externalPath")
        m1 == IF Truthy(bf) /\ bf.t = "list" THEN Wd_bullet_id(bf.l) ELSE <<>>
        f  == FirstTruthyField(j, Wd_id_fields)
        m3 == IF f = NoField THEN <<>> ELSE PyStr(j.d[f])
    IN  IF m1 # <<>> THEN JStr(m1)
        ELSE IF Truthy(ep)
             THEN (IF ep.t # "str" THEN Raise
                   ELSE LET m2 == IF Contains(ep.s, <<"_">>)
                                  THEN SplitLast(ep.s, "_")
                                  ELSE SplitLast(StripSlash(ep.s), "/")
                        IN  IF m2 # <<>> THEN JStr(m2) ELSE JStr(m3))
        ELSE JStr(m3)

Wd_title(j) ==
    LET f == FirstTruthyField(j, Wd_title_fields)
    IN  IF f = NoField THEN JStr(<<>>) ELSE JStr(Strip(PyStr(j.d[f])))

\* location_text before the final strip
Wd_location_text(j) ==
    LET lt == Get(j, "locationsText")
        loc == Get(j, "location")
        ploc == Get(j, "primaryLocation")
    IN  IF Truthy(lt) THEN lt
        ELSE IF Truthy(loc)
             THEN (IF loc.t = "dict" THEN GetDef(loc, "name", JStr(<<>>))
                   ELSE JStr(PyStr(loc)))
        ELSE IF Truthy(ploc)
             THEN (IF ploc.t = "dict" THEN GetDef(ploc, "name", JStr(<<>>))
                   ELSE JStr(PyStr(ploc)))
        ELSE JStr(<<>>)

\* processed['location'] = location_text.strip()
Wd_location(j) ==
    LET lt == Wd_location_text(j)
    IN  IF lt.t = "str" THEN JStr(Strip(lt.s)) ELSE Raise

Wd_posting_date(j) ==
    LET f == FirstTruthyField(j, Wd_date_fields)
    IN  IF f = NoField THEN JStr(<<>>) ELSE JStr(PyStr(j.d[f]))

Wd_url(j) ==
    LET ep == Get(j, "externalPath")
        u == Get(j, "url")
        id == Wd_job_id(j)
    IN  IF Truthy(ep)
        THEN (IF ep.t = "str" THEN JStr(urljoin(base_url, ep.s)) ELSE Raise)
        ELSE IF Truthy(u) THEN u
        ELSE IF Truthy(id)
             THEN JStr(base_url \o <<"/","j","o","b","/">> \o id.s)
        ELSE JStr(<<>>)

\* SimpleWorkdayAPIJobScraper.process_job_data; tick is the clock reading
Wd_process_job_data(j, tick) ==
    IF j.t # "dict" THEN JNull
    ELSE LET job_id == Wd_job_id(j)
             title == Wd_title(j)
             location == Wd_location(j)
             url == Wd_url(j)
         IN  IF job_id = Raise \/ location = Raise \/ url = Raise THEN JNull
             ELSE IF ~Truthy(title) THEN JNull
             ELSE JDict([job_id       |-> job_id,
                         title        |-> title,
                         location     |-> location,
                         posting_date |-> Wd_posting_date(j),
                         url          |-> url,
                         company      |-> JStr(Wd_company),
                         scraped_at   |-> JStr(IsoFormat(tick))])

\* ------------------------------------------------------------------------
\* Raw upstream records
\* ------------------------------------------------------------------------
sEng == <<"E","n","g">>

sDal == <<"D","a","l">>

sJR1 == <<"J","R","1">>

\* dict union, the left operand winning
Merge(a, b) == a @@ b

TitleParts ==
    { EmptyDict,
      [title |-> JStr(sEng)],
      [title |-> JStr(<<>>)],
      [title |-> JNull],
      [title |-> JStr(<<" ">>)],
      [title |-> JNum(7)],
      [jobName |-> JStr(sEng)],
      [title |-> JStr(<<>>), name |-> JStr(<<"Q","A">>)],
      [jobTitle |-> JStr(<<" ","P","M">>)] }

LocationParts ==
    { EmptyDict,
      [locationsText |-> JStr(sDal)],
      [locationsText |-> JNum(5)],
      [location |-> JNum(5)],
      [location |-> JDict([name |-> JStr(sDal)])],
      [location |-> JDict([name |-> JNull])],
      [location |-> JDict([city |-> JStr(sDal)])],
      [primaryLocation |-> JStr(sDal \o <<" ">>)] }

BulletParts ==
    { EmptyDict,
      [bulletFields |-> JList(<<JStr(sJR1)>>)],
      [bulletFields |-> JList(<<JDict([type |-> JStr(<<"L","o","c","a","t","i","o","n">>),
                                       value |-> JStr(sDal)])>>)],
      [bulletFields |-> JList(<<JDict([value |-> JStr(sDal)])>>)],
      [bulletFields |-> JList(<<JDict([type |-> JNull, value |-> JStr(sDal)])>>)],
      [bulletFields |-> JStr(sJR1)] }

IdParts ==
    { EmptyDict,
      [id |-> JNum(42)],
      [jobId |-> JStr(<<"A","1">>)],
      [externalJobId |-> JStr(<<"X","9">>)] }

\* an externalPath of the form /job/<loc>/<slug>_<ID>
sPath == <<"/","j","o","b","/","D","/","E","_","J","R","4">>

PathParts ==
    { EmptyDict,
      [externalPath |-> JStr(sPath)],
      [externalPath |-> JStr(<<"/","j","/","x","/">>)],
      [externalPath |-> JNum(3)],
      [url |-> JStr(<<"h","t","t","p",":","/","/","x","/","1">>)] }

DateParts ==
    { EmptyDict,
      [postedOn |-> JStr(<<"T","o","d","a","y">>)],
      [publishedDate |-> JNum(3)] }

\* raw upstream records that are JSON objects
RawDicts ==
    { JDict(Merge(tp, Merge(lp, Merge(bp, Merge(ip, Merge(pp, dp)))))) :
        tp \in TitleParts, lp \in LocationParts, bp \in BulletParts,
        ip \in IdParts, pp \in PathParts, dp \in DateParts }

\* list elements that are not JSON objects
RawNonDicts == { JStr(sEng), JNum(1), JNull, JList(<<JStr(sEng)>>) }

RawJobs == RawDicts \cup RawNonDicts

\* the record has a non-empty value under one of the title-candidate keys
HasTitleCandidate(j) ==
    /\ j.t = "dict"
    /\ \E k \in {"title", "jobTitle", "positionTitle", "name", "jobName"} :
          Truthy(Get(j, k))

\* ------------------------------------------------------------------------
\* Transport: make_request / make_api_request
\* ------------------------------------------------------------------------
\* a body that does not parse as JSON
NonJson == [t |-> "nonjson"]

\* one attempt's outcome: a RequestException raised by session.get/post
\* (connection error, timeout), or a response with a status and a body
NetError == [exc |-> TRUE, status |-> 0, body |-> NonJson]

Resp(status, body) == [exc |-> FALSE, status |-> status, body |-> body]

\* a call before its first loop test
NewCall == [attempt |-> 0, outs |-> <<>>, events |-> <<>>, status |-> "loop", result |-> JNull]

\* for attempt in range(self.max_retries)
LoopContinues_off(attempt, max) == attempt <= max

LoopContinues(attempt, max) == attempt < max

\* if attempt < self.max_retries - 1
SleepsAfter(attempt, max) == attempt < max - 1

\* self.delay * (attempt + 1)
Backoff_zero_based(d, attempt) == d * attempt

Backoff(d, attempt) == d * (attempt + 1)

\* response.raise_for_status() raises HTTPError, a RequestException
RaisesForStatus(status) == status >= 400 /\ status < 600

\* the attempt ends in the except clause of make_request
Enh_failed(o) == o.exc \/ RaisesForStatus(o.status)

\* the attempt of make_api_request does not reach 'return data'
Wd_failed(o) == o.exc \/ o.status # 200 \/ o.body = NonJson

\* the call entered: the loop body runs only if range(max_retries) is not empty
StartCall(max) ==
    [NewCall EXCEPT !.status = IF LoopContinues(0, max) THEN "loop" ELSE "returned"]

\* the bookkeeping shared by a failed attempt of either transport:
\* the optional sleep, then the next loop test, 'return None' after the loop
FailedAttempt(c, o, max, d) ==
    LET a == c.attempt
        req == Append(c.events, [e |-> "req", k |-> a + 1, d |-> 0])
    IN  [attempt |-> a + 1,
         outs    |-> Append(c.outs, o),
         events  |-> IF SleepsAfter(a, max)
                     THEN Append(req, [e |-> "sleep", k |-> a + 1, d |-> Backoff(d, a)])
                     ELSE req,
         status  |-> IF LoopContinues(a + 1, max) THEN "loop" ELSE "returned",
         result  |-> JNull]

\* 'return response' / 'return data'
ReturnedAttempt(c, o, value) ==
    [attempt |-> c.attempt + 1,
     outs    |-> Append(c.outs, o),
     events  |-> Append(c.events, [e |-> "req", k |-> c.attempt + 1, d |-> 0]),
     status  |-> "returned",
     result  |-> value]

\* one iteration of the loop of EnhancedPulteJobScraper.make_request
Enh_make_request_iter(c, m, o, max, d) ==
    IF m \notin {"GET", "POST"}
    THEN [c EXCEPT !.status = "raised"]
    ELSE IF Enh_failed(o) THEN FailedAttempt(c, o, max, d)
    ELSE ReturnedAttempt(c, o, o)

\* one iteration of the loop of SimplePulteJobScraper.make_request
Simple_make_request_iter(c, o, max, d) ==
    IF Enh_failed(o) THEN FailedAttempt(c, o, max, d)
    ELSE ReturnedAttempt(c, o, o)

\* one iteration of the loop of SimpleWorkdayAPIJobScraper.make_api_request
Wd_make_api_request_iter(c, o, max, d) ==
    IF Wd_failed(o) THEN FailedAttempt(c, o, max, d)
    ELSE ReturnedAttempt(c, o, o.body)

\* a whole call of make_request against the oracle outs of attempt outcomes
RECURSIVE Enh_make_request(_, _, _, _, _)
Enh_make_request(c, m, outs, max, d) ==
    IF c.status # "loop" \/ outs = <<>> THEN c
    ELSE Enh_make_request(Enh_make_request_iter(c, m, Head(outs), max, d),
                          m, Tail(outs), max, d)

\* a whole call of make_api_request against the oracle outs
RECURSIVE Wd_make_api_request(_, _, _, _)
Wd_make_api_request(c, outs, max, d) ==
    IF c.status # "loop" \/ outs = <<>> THEN c
    ELSE Wd_make_api_request(Wd_make_api_request_iter(c, Head(outs), max, d),
                             Tail(outs), max, d)

StatusOk == JDict([status |-> JStr(<<"o","k">>)])

\* attempt outcomes of the transport specification
TOutcomes ==
    { NetError, Resp(200, StatusOk), Resp(200, NonJson), Resp(204, NonJson),
      Resp(304, NonJson), Resp(404, NonJson), Resp(503, StatusOk) }

\* ------------------------------------------------------------------------
\* Upstream pages
\* ------------------------------------------------------------------------
\* limit = 20
limit == 20

\* the i-th record of the upstream, titled
GoodRec(i) == JDict([title |-> JStr(sEng), id |-> JNum(i)])

\* the i-th record of the upstream, without any title key
UntitledRec(i) == JDict([id |-> JNum(i)])

\* the i-th record of the upstream, titled, its bulletFields plain strings
BulletRec(i) ==
    JDict([title |-> JStr(sEng), id |-> JNum(i), bulletFields |-> JList(<<JStr(sJR1)>>)])

\* n records from the given offset on; the positions in odd are of that kind
PageList(offset, n, odd, kind) ==
    [i \in 1..n |->
        IF i \notin odd THEN GoodRec(offset + i)
        ELSE IF kind = "untitled" THEN UntitledRec(offset + i)
        ELSE BulletRec(offset + i)]

\* lengths of the raw lists the upstream answers with
PageSizes == {0, 1, limit - 1, limit}

\* the raw lists the upstream answers a request at the given offset with
PageLists(offset) ==
    { PageList(offset, n, {}, "untitled") : n \in PageSizes }
        \cup { PageList(offset, n, {1}, kind) :
                  n \in PageSizes \ {0}, kind \in {"untitled", "bullets"} }

\* a request's oracles: every attempt meets the same outcome o, or, for o in
\* retried, the first attempt meets a network error and the later ones o
Oracles(max, outcomes, retried) ==
    { [i \in 1..max |-> o] : o \in outcomes }
        \cup { [i \in 1..max |-> IF i = 1 THEN NetError ELSE o] : o \in retried }

\* the full page of titled records at the given offset, under jobPostings
FullPage(offset) ==
    Resp(200, JDict([jobPostings |-> JList(PageList(offset, limit, {}, "untitled"))]))

\* a page of titled records one longer than the page size asked for
OverPage(offset) ==
    Resp(200, JDict([jobPostings |-> JList(PageList(offset, limit + 1, {}, "untitled"))]))

\* ------------------------------------------------------------------------
\* SimpleWorkdayAPIJobScraper.scrape_jobs_api
\* ------------------------------------------------------------------------
\* 'for x in v': the list of the elements, or Raise when v is not iterable;
\* the keys of a dict and the characters of a string are strings
Iterate(v) ==
    CASE v.t = "list" -> v
      [] v.t = "str"  -> JList([i \in 1..Len(v.s) |-> JStr(<<v.s[i]>>)])
      [] v.t = "dict" -> JList([i \in 1..Cardinality(DOMAIN v.d) |-> JStr(<<"k">>)])
      [] OTHER        -> Raise

\* the loop of extract_jobs_from_api_response over job_postings
RECURSIVE Wd_process_all(_, _)
Wd_process_all(raw, tick) ==
    IF raw = <<>> THEN <<>>
    ELSE LET processed_job == Wd_process_job_data(Head(raw), tick)
         IN  (IF Truthy(processed_job) THEN <<processed_job>> ELSE <<>>)
                 \o Wd_process_all(Tail(raw), tick)

\* data.get('jobPostings', []); Raise when data has no get
Wd_job_postings(data) ==
    IF data.t # "dict" THEN Raise ELSE GetDef(data, "jobPostings", JList(<<>>))

\* extract_jobs_from_api_response: the list jobs as a list value, or Raise
Wd_extract_jobs(data, tick) ==
    LET job_postings == Wd_job_postings(data)
    IN  IF job_postings = Raise THEN Raise
        ELSE IF ~Truthy(job_postings) THEN JList(<<>>)
        ELSE IF Iterate(job_postings) = Raise THEN Raise
        ELSE JList(Wd_process_all(Iterate(job_postings).l, tick))

\* number of raw records of the page, 0 when there is no list of them
Wd_raw_count(data) ==
    IF data.t = "dict" /\ Get(data, "jobPostings").t = "list"
    THEN Len(Get(data, "jobPostings").l) ELSE 0

\* the raw records of the page, <<>> when there is no list of them
Wd_raw_list(data) ==
    IF data.t = "dict" /\ Get(data, "jobPostings").t = "list"
    THEN Get(data, "jobPostings").l ELSE <<>>

\* the number of raw records that have a non-empty title candidate
RECURSIVE TitledCount(_)
TitledCount(raw) ==
    IF raw = <<>> THEN 0
    ELSE (IF HasTitleCandidate(Head(raw)) THEN 1 ELSE 0) + TitledCount(Tail(raw))

\* if len(jobs) < limit: break
Wd_short_page(jobs, data) == Len(jobs) < limit

\* offset += limit
Wd_next_offset_fetched(offset, jobs) == offset + Len(jobs)

Wd_next_offset(offset, jobs) == offset + limit

\* all_jobs.extend(jobs)
Extend_replace(all_jobs, jobs) == jobs

Extend(all_jobs, jobs) == all_jobs \o jobs

\* the job_id strings of a list of normalized records
JobIds(jobs) ==
    CHOOSE ids \in { [i \in 1..Len(l) |-> l[i].d.job_id.s] : l \in {jobs} } : TRUE

\* the shape of a page's JSON body with respect to the container keys the
\* scraper knows: "none" when the transport returned no body, "container"
\* when one of the keys holds a list
BodyKind(data, keys) ==
    CASE data = JNull -> "none"
      [] data.t = "nonjson" -> "nonjson"
      [] data.t = "list" -> "list"
      [] data.t = "dict" ->
            IF \E k \in Range(keys) : k \in DOMAIN data.d /\ data.d[k].t = "list"
            THEN "container" ELSE "no_container"
      [] OTHER -> "scalar"

\* one iteration of the while loop, given what make_api_request returned:
\* the new pc, all_jobs and offset, and the log entry of the page
Wd_iteration(all_jobs, offset, result, tick) ==
    LET jobs == Wd_extract_jobs(result, tick)
        entry(fetched, norm, stop) ==
            [offset |-> offset, fetched |-> fetched, raw |-> Wd_raw_count(result),
             norm |-> norm, stop |-> stop, kind |-> BodyKind(result, <<"jobPostings">>),
             titled |-> TitledCount(Wd_raw_list(result)),
             ids |-> IF Truthy(result) /\ jobs # Raise THEN JobIds(jobs.l) ELSE <<>>]
    IN  IF ~Truthy(result)
        THEN [pc |-> "done", all_jobs |-> all_jobs, offset |-> offset,
              entry |-> entry(FALSE, 0, TRUE)]
        ELSE IF jobs = Raise
        THEN [pc |-> "raised", all_jobs |-> all_jobs, offset |-> offset,
              entry |-> entry(TRUE, 0, TRUE)]
        ELSE IF ~Truthy(jobs)
        THEN [pc |-> "done", all_jobs |-> all_jobs, offset |-> offset,
              entry |-> entry(TRUE, 0, TRUE)]
        ELSE IF Wd_short_page(jobs.l, result)
        THEN [pc |-> "done", all_jobs |-> Extend(all_jobs, jobs.l), offset |-> offset,
              entry |-> entry(TRUE, Len(jobs.l), TRUE)]
        ELSE [pc |-> "loop", all_jobs |-> Extend(all_jobs, jobs.l), offset |-> Wd_next_offset(offset, jobs.l),
              entry |-> entry(TRUE, Len(jobs.l), FALSE)]

\* what the upstream may answer an attempt at the given offset with
Wd_outcomes(offset) ==
    { NetError, Resp(500, NonJson), Resp(200, NonJson), Resp(200, StatusOk),
      Resp(200, JDict(EmptyDict)), Resp(200, JList(<<GoodRec(offset + 1)>>)),
      Resp(200, JDict([jobPostings |-> JNum(7)])), Resp(200, JNum(7)), OverPage(offset) }
        \cup { Resp(200, JDict([jobPostings |-> JList(l)])) : l \in PageLists(offset) }
        \cup { Resp(200, JDict([jobPostings |-> JList(PageList(offset, n, {n}, kind))])) :
                  n \in PageSizes \ {0}, kind \in {"untitled", "bullets"} }

\* ------------------------------------------------------------------------
\* EnhancedPulteJobScraper: endpoint strategy
\* ------------------------------------------------------------------------
\* base_patterns of discover_workday_endpoints: four distinct URLs
NumBasePatterns == 4

containers == <<"jobPostings", "jobs", "data", "results", "items">>

job_fields == {"title", "location", "id", "jobTitle", "position"}

\* the first container key of data whose value is a list, NoField when none
RECURSIVE FirstListContainer(_, _)
FirstListContainer(data, keys) ==
    IF keys = <<>> THEN NoField
    ELSE IF Head(keys) \in DOMAIN data.d /\ data.d[Head(keys)].t = "list" THEN Head(keys)
    ELSE FirstListContainer(data, Tail(keys))

is_job_data(data) ==
    IF data.t = "list" /\ data.l # <<>>
    THEN Head(data.l).t = "dict" /\ DOMAIN Head(data.l).d \cap job_fields # {}
    ELSE IF data.t = "dict"
    THEN \/ FirstListContainer(data, containers) # NoField
         \/ DOMAIN data.d \cap job_fields # {}
    ELSE FALSE

\* the list 'jobs' of extract_jobs_from_response before processing
Enh_raw_jobs(data) ==
    IF data.t = "list" THEN data.l
    ELSE IF data.t = "dict" /\ FirstListContainer(data, containers) # NoField
    THEN data.d[FirstListContainer(data, containers)].l
    ELSE <<>>

RECURSIVE Enh_process_all(_, _)
Enh_process_all(raw, tick) ==
    IF raw = <<>> THEN <<>>
    ELSE LET processed_job == Enh_process_job_data(Head(raw), tick)
         IN  (IF Truthy(processed_job) THEN <<processed_job>> ELSE <<>>)
                 \o Enh_process_all(Tail(raw), tick)

extract_jobs_from_response(data, tick) == Enh_process_all(Enh_raw_jobs(data), tick)

\* 'if response and response.status_code == 200'; bool(response) is response.ok
Enh_usable(call) ==
    /\ call.status = "returned"
    /\ call.result # JNull
    /\ ~RaisesForStatus(call.result.status)
    /\ call.result.status = 200

\* response.json() raises json.JSONDecodeError
Enh_json_fails(response) == response.body = NonJson

\* number of entries of param_sets, in test_api_endpoint and in paginate_api_endpoint
NumShapes == 4

\* test_api_endpoint for one parameter shape: the shape classifies positively
Enh_probe_hit(call) ==
    /\ Enh_usable(call)
    /\ ~Enh_json_fails(call.result)
    /\ is_job_data(call.result.body)

\* 'jobs' of one request of paginate_api_endpoint, <<>> when the request
\* gave no usable JSON
Enh_page_jobs(call, tick) ==
    IF Enh_usable(call) /\ ~Enh_json_fails(call.result)
    THEN extract_jobs_from_response(call.result.body, tick)
    ELSE <<>>

\* number of raw records in the answer of one request
Enh_raw_count(call) ==
    IF Enh_usable(call) /\ ~Enh_json_fails(call.result)
    THEN Len(Enh_raw_jobs(call.result.body))
    ELSE 0

\* if len(jobs) < limit: return all_jobs
Enh_short_page(jobs) == Len(jobs) < limit

\* offset += limit
Enh_next_offset(offset) == offset + limit

\* what the upstream may answer a probe with
Probe_outcomes ==
    { NetError, Resp(404, NonJson), Resp(200, NonJson), Resp(200, StatusOk),
      Resp(204, NonJson),
      Resp(200, JList(<<JStr(sEng)>>)),
      Resp(200, JList(<<GoodRec(1)>>)),
      Resp(200, JDict([jobPostings |-> JList(<<>>)])),
      Resp(200, JDict([title |-> JStr(sEng)])) }

\* what the upstream may answer a page request at the given offset with
Enh_outcomes(offset) ==
    { NetError, Resp(404, NonJson), Resp(200, NonJson), Resp(200, StatusOk),
      Resp(200, JList(PageList(offset, limit, {}, "untitled"))),
      Resp(200, JDict([items |-> JList(PageList(offset, 1, {}, "untitled"))])),
      Resp(200, JNum(7)), FullPage(0), OverPage(offset) }
        \cup { Resp(200, JDict([jobPostings |-> JList(l)])) : l \in PageLists(offset) }

\* ------------------------------------------------------------------------
\* The upstream of the termination bound: N records, offset and limit honored
\* ------------------------------------------------------------------------
Min(a, b) == IF a < b THEN a ELSE b

\* number of records of the page at the given offset of an upstream of N records
SliceLen(N, offset) == IF N > offset THEN Min(limit, N - offset) ELSE 0

\* ceil(N / limit)
CeilPages(N) == (N + limit - 1) \div limit

\* r is the i-th record of the upstream
RecordAt(r, i) == r \in {GoodRec(i), UntitledRec(i), BulletRec(i)}

\* the body is the jobPostings page of an upstream of N records that starts
\* after its first 'start' records
HonorsBody(body, N, start) ==
    /\ body.t = "dict"
    /\ "jobPostings" \in DOMAIN body.d
    /\ body.d["jobPostings"].t = "list"
    /\ Len(body.d["jobPostings"].l) = SliceLen(N, start)
    /\ \A i \in 1..Len(body.d["jobPostings"].l) :
          RecordAt(body.d["jobPostings"].l[i], start + i)

\* the parameter shapes of a page request, in the order of param_sets:
\* offset/limit, from/size, page/pageSize, start/count. An upstream reads
\* the offset of the shapes in 'reads' and serves its first page to a
\* request of another shape.
ShapeOffsetLimit == 1

UpstreamReads == { {ShapeOffsetLimit}, 1..NumShapes }

StartOf(reads, shape, offset) == IF shape \in reads THEN offset ELSE 0

\* ------------------------------------------------------------------------
\* EnhancedPulteJobScraper: markup strategy
\* ------------------------------------------------------------------------
StartsWith(s, pre) == Len(s) >= Len(pre) /\ SubSeq(s, 1, Len(pre)) = pre

sHttp == <<"h","t","t","p">>

\* for part in reversed(url.split('/')): the first non-empty part that does
\* not start with 'http', <<>> when there is none
RECURSIVE UrlTailPart(_)
UrlTailPart(u) ==
    IF u = <<>> THEN <<>>
    ELSE LET part == SplitLast(u, "/")
             before == SubSeq(u, 1, Len(u) - Len(part) - 1)
         IN  IF part # <<>> /\ ~StartsWith(part, sHttp) THEN part
             ELSE UrlTailPart(before)

\* a rendered job element: the text of the first title element found (JNull
\* when no title selector matches), the text and href of its first link,
\* the texts of its location and date elements, its first id-like attribute
Element(title, link_text, href, location, date, attr) ==
    [title |-> title, link_text |-> link_text, href |-> href,
     location |-> location, date |-> date, attr |-> attr]

\* the keys of a dict whose values are not JNull
Present(d) == [k \in {x \in DOMAIN d : d[x] # JNull} |-> d[k]]

\* extract_job_data_selenium
extract_job_data_selenium(el, tick) ==
    LET title == IF el.title # JNull THEN JStr(Strip(el.title.s)) ELSE JNull
        title2 == IF ~Truthy(title) /\ el.link_text # JNull /\ Strip(el.link_text.s) # <<>>
                  THEN JStr(Strip(el.link_text.s)) ELSE title
        url == IF Truthy(el.href) THEN el.href ELSE JNull
        id1 == IF Truthy(url) /\ UrlTailPart(url.s) # <<>> THEN JStr(UrlTailPart(url.s)) ELSE JNull
        id2 == IF ~Truthy(id1) /\ Truthy(el.attr) THEN el.attr ELSE id1
        job_data == Present([scraped_at   |-> JStr(IsoFormat(tick)),
                             company      |-> JStr(Enh_company),
                             title        |-> title2,
                             location     |-> IF el.location # JNull THEN JStr(Strip(el.location.s)) ELSE JNull,
                             posting_date |-> IF el.date # JNull THEN JStr(Strip(el.date.s)) ELSE JNull,
                             url          |-> url,
                             job_id       |-> id2])
    IN  IF Truthy(title2) THEN JDict(job_data) ELSE JNull

\* the loop over job_elements; an element may also raise, which skips it
RECURSIVE Sel_page_jobs(_, _)
Sel_page_jobs(elements, tick) ==
    IF elements = <<>> THEN <<>>
    ELSE LET job_data == IF Head(elements) = Raise THEN JNull
                         ELSE extract_job_data_selenium(Head(elements), tick)
         IN  (IF Truthy(job_data) THEN <<job_data>> ELSE <<>>)
                 \o Sel_page_jobs(Tail(elements), tick)

sUrl1 == <<"h","t","t","p","s",":","/","/","h","/","j","/","7">>

ElTitled == Element(JStr(sEng), JStr(sEng), JStr(sUrl1), JStr(sDal), JNull, JNull)

ElLinkOnly == Element(JNull, JStr(<<" ","Q","A">>), JStr(sUrl1), JNull, JNull, JStr(sJR1))

ElBlank == Element(JStr(<<" ">>), JNull, JNull, JNull, JNull, JNull)

\* the job elements a rendered page may show
ElementLists ==
    { <<>>, <<ElTitled>>, <<ElBlank>>, <<ElBlank, Raise>>, <<ElLinkOnly, ElTitled>>,
      <<ElTitled, ElTitled>> }

\* ------------------------------------------------------------------------
\* SimplePulteJobScraper: markup strategy
\* ------------------------------------------------------------------------
\* len(visited_urls) < 10
PageCap == 10

\* pagination_urls[:5]
LinkCap == 5

\* title_text[:200]
TitleCap == 200

\* len(part) > 3, len(job_data['title'].strip()) > 3
MinLen == 3

sSlash == <<"/">>

sEngineer == <<"E","n","g","i","n","e","e","r">>

sShort == <<"Q","A">>

\* the words of Method 3 of extract_job_from_element
job_words ==
    { <<"e","n","g","i","n","e","e","r">>,
      <<"m","a","n","a","g","e","r">>,
      <<"a","n","a","l","y","s","t">>,
      <<"s","p","e","c","i","a","l","i","s","t">>,
      <<"c","o","o","r","d","i","n","a","t","o","r">>,
      <<"d","i","r","e","c","t","o","r">>,
      <<"a","s","s","o","c","i","a","t","e">> }

\* s[:n]
Prefix(s, n) == SubSeq(s, 1, Min(n, Len(s)))

\* a parsed element: its tag name, its stripped text, its href, the text of
\* the first title element and the href of the first link below it, the
\* texts of its location and date elements, its first id-like attribute;
\* <<>> for what is absent
SimpleElement(name, text, href, heading, child_href, location, date, attr) ==
    [name |-> name, text |-> text, href |-> href, heading |-> heading,
     child_href |-> child_href, location |-> location, date |-> date, attr |-> attr]

\* the title of extract_job_from_element, Methods 1 to 3
Simple_title_text(el) ==
    IF el.name = "a" /\ el.text # <<>> THEN el.text
    ELSE IF el.heading # <<>> THEN el.heading
    ELSE IF /\ el.text # <<>>
            /\ Len(el.text) < TitleCap
            /\ \E w \in job_words : Contains(Lower(el.text), w)
         THEN el.text
         ELSE <<>>

\* a href made absolute: a rooted one is joined to base_url, an http one is
\* kept, any other gives no URL
Simple_href_url(href) ==
    IF StartsWith(href, sSlash) THEN urljoin(base_url, href)
    ELSE IF StartsWith(href, sHttp) THEN href
    ELSE <<>>

Simple_url(el) ==
    IF el.name = "a" /\ el.href # <<>> THEN Simple_href_url(el.href)
    ELSE IF el.child_href # <<>> THEN Simple_href_url(el.child_href)
    ELSE <<>>

\* for part in reversed(url.split('/')): the first non-empty part of more
\* than three characters that does not start with 'http'
RECURSIVE Simple_url_part(_)
Simple_url_part(u) ==
    IF u = <<>> THEN <<>>
    ELSE LET part == SplitLast(u, "/")
             rest == SubSeq(u, 1, Len(u) - Len(part) - 1)
         IN  IF part # <<>> /\ ~StartsWith(part, sHttp) /\ Len(part) > MinLen THEN part
             ELSE Simple_url_part(rest)

Simple_job_id(el) ==
    LET from_url == IF Simple_url(el) # <<>> THEN Simple_url_part(Simple_url(el)) ELSE <<>>
    IN  IF from_url # <<>> THEN from_url ELSE el.attr

\* extract_job_from_element: the record, or JNull
extract_job_from_element(el, tick) ==
    LET title == Prefix(Simple_title_text(el), TitleCap)
    IN  IF title # <<>> /\ Len(Strip(title)) > MinLen
        THEN [t |-> "job", scraped_at |-> IsoFormat(tick), company |-> Enh_company,
              job_id |-> Simple_job_id(el), title |-> title, location |-> el.location,
              posting_date |-> el.date, url |-> Simple_url(el)]
        ELSE JNull

\* the loop over all_elements of parse_jobs_from_html
RECURSIVE Simple_jobs(_, _)
Simple_jobs(elements, tick) ==
    IF elements = <<>> THEN <<>>
    ELSE LET job_data == extract_job_from_element(Head(elements), tick)
         IN  (IF job_data # JNull THEN <<job_data>> ELSE <<>>)
                 \o Simple_jobs(Tail(elements), tick)

\* 'Remove duplicates based on title and URL'
RECURSIVE Simple_unique(_, _)
Simple_unique(jobs, seen) ==
    IF jobs = <<>> THEN <<>>
    ELSE LET key == <<Head(jobs).title, Head(jobs).url>>
         IN  IF key \in seen THEN Simple_unique(Tail(jobs), seen)
             ELSE <<Head(jobs)>> \o Simple_unique(Tail(jobs), seen \cup {key})

\* list(set(...)): the distinct elements in any order
ElementOrders(elements) ==
    { f \in [1..Cardinality(elements) -> elements] :
        \A i, j \in 1..Cardinality(elements) : f[i] = f[j] => i = j }

\* parse_jobs_from_html for one order of all_elements
parse_jobs_from_html(all_elements, tick) == Simple_unique(Simple_jobs(all_elements, tick), {})

\* the loop of find_pagination_urls over the hrefs the selectors match
RECURSIVE Simple_collect(_, _, _)
Simple_collect(hrefs, current_url, pagination_urls) ==
    IF hrefs = <<>> THEN pagination_urls
    ELSE LET full_url == Simple_href_url(Head(hrefs))
         IN  IF /\ full_url # <<>>
                /\ full_url # current_url
                /\ full_url \notin Range(pagination_urls)
             THEN Simple_collect(Tail(hrefs), current_url, Append(pagination_urls, full_url))
             ELSE Simple_collect(Tail(hrefs), current_url, pagination_urls)

find_pagination_urls(hrefs, current_url) ==
    Prefix(Simple_collect(hrefs, current_url, <<>>), LinkCap)

\* 'for url in pagination_urls: if url not in visited_urls and url not in
\* urls_to_visit: urls_to_visit.append(url)'
RECURSIVE Simple_enqueue(_, _, _)
Simple_enqueue(urls, visited_urls, urls_to_visit) ==
    IF urls = <<>> THEN urls_to_visit
    ELSE IF Head(urls) \notin visited_urls /\ Head(urls) \notin Range(urls_to_visit)
         THEN Simple_enqueue(Tail(urls), visited_urls, Append(urls_to_visit, Head(urls)))
         ELSE Simple_enqueue(Tail(urls), visited_urls, urls_to_visit)

\* ------------------------------------------------------------------------
\* The sites of the markup strategy: page 0 is the landing page base_url,
\* page n is https://h/p<n>
\* ------------------------------------------------------------------------
\* pages of a site
MaxUrl == 20

RootedHref(n) == <<"/","p">> \o NumStr(n)

PageUrl(n) == IF n = 0 THEN base_url ELSE urljoin(base_url, RootedHref(n))

\* the page number of a URL, -1 for a URL the site does not serve
PageNo(url) ==
    IF \E n \in 0..MaxUrl : PageUrl(n) = url
    THEN CHOOSE n \in 0..MaxUrl : PageUrl(n) = url
    ELSE -1

sJobHref == <<"/","j","o","b","/">>

JobLink(k) ==
    SimpleElement("a", sEngineer, sJobHref \o NumStr(k), <<>>, <<>>, <<>>, <<>>, <<>>)

JobCard(k) ==
    SimpleElement("div", sEngineer, <<>>, <<>>, sJobHref \o NumStr(k), sDal, <<>>, sJR1)

\* the hrefs the pagination selectors match on page n: a chain to the next
\* page, a cycle over three pages with links back, a fan of seven pages
SiteHrefs(links, n) ==
    CASE links = "chain" -> <<RootedHref(n + 1)>>
      [] links = "cycle" -> <<PageUrl(n), <<"/","P","G","I">>, <<"p","1">>,
                              RootedHref((n % 2) + 1), PageUrl((n % 2) + 1)>>
      [] links = "fan"   -> [i \in 1..7 |-> RootedHref(n + i)]
      [] OTHER           -> <<>>

\* the job elements of page n: the same link on every page, a link of its
\* own, a card around the link next to the link, a link with a short text
SiteElements(jobs, n) ==
    CASE jobs = "same"   -> {JobLink(7)}
      [] jobs = "fresh"  -> {JobLink(100 + n)}
      [] jobs = "nested" -> {JobLink(100 + n), JobCard(100 + n)}
      [] jobs = "short"  -> {SimpleElement("a", sShort, sJobHref \o NumStr(n), <<>>, <<>>, <<>>, <<>>, <<>>)}
      [] OTHER           -> {}

Sites ==
    [links : {"chain", "cycle", "fan", "none"},
     jobs : {"same", "fresh", "nested", "short", "none"},
     fails : {{}, {1}}]

\* make_request(current_url) returns a response
SiteServes(site, url) == PageNo(url) >= 0 /\ PageNo(url) \notin site.fails

\* ------------------------------------------------------------------------
\* Variable groups and the resting values of the parts a specification
\* leaves alone
\* ------------------------------------------------------------------------
varsC == <<max_retries, delay, now>>

varsN == <<job, enh_out, wd_out, n_pc>>

varsT == <<t_kind, t_method, t_call>>

varsW == <<w_pc, w_all_jobs, w_offset, w_pages, w_cons>>

varsE ==
    <<e_pc, e_trace, e_nendpoints, e_idx, e_shape, e_all_jobs, e_offset, e_page,
      e_pages, e_cons, e_jobs, e_result, e_driver, s_all_jobs, s_page>>

varsM == <<m_pc, m_site, m_all_jobs, m_visited_urls, m_urls_to_visit, m_fetched>>

varsP == <<p_pc, p_shape, p_log, p_ret>>

varsD == <<d_pc, d_content, d_ret>>

varsX == <<x_pc, x_jobs, x_csv>>

varsR == <<r_driver, r_phase, r_run, r_first, r_tape>>

varsU == <<u_pc, u_url, u_info, u_api>>

varsH == <<h_driver, h_run, h_page, h_log>>

vars == <<varsC, varsN, varsT, varsW, varsE, varsM, varsP, varsD, varsX, varsR, varsU, varsH>>

IdleN ==
    /\ job = JNull
    /\ enh_out = JNull
    /\ wd_out = JNull
    /\ n_pc = "idle"

IdleT ==
    /\ t_kind = "none"
    /\ t_method = "GET"
    /\ t_call = NewCall

IdleW ==
    /\ w_pc = "idle"
    /\ w_all_jobs = <<>>
    /\ w_offset = 0
    /\ w_pages = <<>>
    /\ w_cons = {}

IdleM ==
    /\ m_pc = "idle"
    /\ m_site = [links |-> "none", jobs |-> "none", fails |-> {}]
    /\ m_all_jobs = <<>>
    /\ m_visited_urls = {}
    /\ m_urls_to_visit = <<>>
    /\ m_fetched = <<>>

NoReturn == [is_working |-> FALSE, data |-> JNull]

IdleP ==
    /\ p_pc = "idle"
    /\ p_shape = 1
    /\ p_log = <<>>
    /\ p_ret = NoReturn

IdleD ==
    /\ d_pc = "idle"
    /\ d_content = <<>>
    /\ d_ret = <<>>

\* no file has been written
NoFile == [written |-> FALSE, header |-> <<>>, rows |-> <<>>]

IdleX ==
    /\ x_pc = "idle"
    /\ x_jobs = <<>>
    /\ x_csv = NoFile

\* no pagination run
NoRun == [pc |-> "idle", all_jobs |-> <<>>, offset |-> 0, shape |-> 0, asked |-> <<>>]

IdleR ==
    /\ r_driver = "none"
    /\ r_phase = "idle"
    /\ r_run = NoRun
    /\ r_first = NoRun
    /\ r_tape = <<>>

\* no company_info
NoInfo == [company |-> <<>>, wd_version |-> <<>>, site_id |-> <<>>, domain |-> <<>>]

IdleU ==
    /\ u_pc = "idle"
    /\ u_url = <<>>
    /\ u_info = NoInfo
    /\ u_api = <<>>

IdleH ==
    /\ h_driver = "none"
    /\ h_run = NoRun
    /\ h_page = 0
    /\ h_log = <<>>

IdleE ==
    /\ e_pc = "idle"
    /\ e_trace = <<>>
    /\ e_nendpoints = 0
    /\ e_idx = 0
    /\ e_shape = 0
    /\ e_all_jobs = <<>>
    /\ e_offset = 0
    /\ e_page = 1
    /\ e_pages = <<>>
    /\ e_cons = {}
    /\ e_jobs = <<>>
    /\ e_result = JNull
    /\ e_driver = "none"
    /\ s_all_jobs = <<>>
    /\ s_page = 1

\* ------------------------------------------------------------------------
\* Specification SpecNormalize: one raw record through either normalizer
\* ------------------------------------------------------------------------
MaxTick == 1

InitN ==
    /\ job \in RawJobs
    /\ now \in 0..MaxTick
    /\ max_retries = 3
    /\ delay = 1
    /\ enh_out = JNull
    /\ wd_out = JNull
    /\ n_pc = "raw"
    /\ IdleT
    /\ IdleW
    /\ IdleE
    /\ IdleM
    /\ IdleP
    /\ IdleD
    /\ IdleR
    /\ IdleU
    /\ IdleH
    /\ IdleX

EnhProcess ==
    /\ n_pc = "raw"
    /\ enh_out' = Enh_process_job_data(job, now)
    /\ n_pc' = "enh"
    /\ UNCHANGED <<job, wd_out, varsC, varsT, varsW, varsE, varsM, varsP, varsD, varsX, varsR, varsU, varsH>>

WdProcess ==
    /\ n_pc = "raw"
    /\ wd_out' = Wd_process_job_data(job, now)
    /\ n_pc' = "wd"
    /\ UNCHANGED <<job, enh_out, varsC, varsT, varsW, varsE, varsM, varsP, varsD, varsX, varsR, varsU, varsH>>

NextN == EnhProcess \/ WdProcess

SpecNormalize == InitN /\ [][NextN]_vars

\* ------------------------------------------------------------------------
\* Specification SpecTransport: one call of a transport, attempt by attempt
\* ------------------------------------------------------------------------
MaxRetries == 3

MaxDelay == 2

InitT ==
    /\ max_retries \in 0..MaxRetries
    /\ delay \in 0..MaxDelay
    /\ now = 0
    /\ t_kind \in {"enhanced", "simple", "workday"}
    /\ t_method \in (CASE t_kind = "enhanced" -> {"GET", "POST", "PUT"}
                       [] t_kind = "simple"   -> {"GET"}
                       [] OTHER               -> {"POST"})
    /\ t_call = StartCall(max_retries)
    /\ IdleN
    /\ IdleW
    /\ IdleE
    /\ IdleM
    /\ IdleP
    /\ IdleD
    /\ IdleR
    /\ IdleU
    /\ IdleH
    /\ IdleX

EnhAttempt ==
    /\ t_kind = "enhanced"
    /\ t_call.status = "loop"
    /\ \E o \in TOutcomes :
          t_call' = Enh_make_request_iter(t_call, t_method, o, max_retries, delay)
    /\ UNCHANGED <<t_kind, t_method, varsC, varsN, varsW, varsE, varsM, varsP, varsD, varsX, varsR, varsU, varsH>>

SimpleAttempt ==
    /\ t_kind = "simple"
    /\ t_call.status = "loop"
    /\ \E o \in TOutcomes :
          t_call' = Simple_make_request_iter(t_call, o, max_retries, delay)
    /\ UNCHANGED <<t_kind, t_method, varsC, varsN, varsW, varsE, varsM, varsP, varsD, varsX, varsR, varsU, varsH>>

WdAttempt ==
    /\ t_kind = "workday"
    /\ t_call.status = "loop"
    /\ \E o \in TOutcomes :
          t_call' = Wd_make_api_request_iter(t_call, o, max_retries, delay)
    /\ UNCHANGED <<t_kind, t_method, varsC, varsN, varsW, varsE, varsM, varsP, varsD, varsX, varsR, varsU, varsH>>

NextT == EnhAttempt \/ SimpleAttempt \/ WdAttempt

SpecTransport == InitT /\ [][NextT]_vars

\* ------------------------------------------------------------------------
\* Bounds of the runs
\* ------------------------------------------------------------------------
\* pages fetched per run in the model
MaxPages == 3

\* max_retries of the runs in the model
RunRetries == {0, 2}

\* upstream sizes the termination bound is checked for
MaxN == limit * MaxPages

\* the upstreams of paginate_api_endpoint: N records, the shapes it reads
Upstreams == [N : 0..MaxN, reads : UpstreamReads]

\* ------------------------------------------------------------------------
\* Specification Spec: a run of EnhancedPulteJobScraper.scrape_jobs
\* ------------------------------------------------------------------------
\* URLs harvested from the landing page beyond the base patterns
MaxHarvested == 1

\* pages the Selenium loop renders per run in the model
MaxSelPages == 2

\* pages the Selenium loop renders when entered on its own
MaxSelLoop == 11

Ev(e, n) == [e |-> e, n |-> n]

Init ==
    /\ max_retries \in RunRetries
    /\ delay = 1
    /\ now = 0
    /\ e_pc = "start"
    /\ e_trace = <<>>
    /\ e_nendpoints = 0
    /\ e_idx = 0
    /\ e_shape = 0
    /\ e_all_jobs = <<>>
    /\ e_offset = 0
    /\ e_page = 1
    /\ e_pages = <<>>
    /\ e_cons = Upstreams
    /\ e_jobs = <<>>
    /\ e_result = JNull
    /\ e_driver = "none"
    /\ s_all_jobs = <<>>
    /\ s_page = 1
    /\ IdleN
    /\ IdleT
    /\ IdleW
    /\ IdleM
    /\ IdleP
    /\ IdleD
    /\ IdleR
    /\ IdleU
    /\ IdleH
    /\ IdleX

\* scrape_jobs calls scrape_with_api
ScrapeJobs ==
    /\ e_pc = "start"
    /\ e_pc' = "discover"
    /\ e_trace' = Append(e_trace, Ev("scrape_with_api", 0))
    /\ UNCHANGED <<e_nendpoints, e_idx, e_shape, e_all_jobs, e_offset, e_page, e_pages,
                   e_cons, e_jobs, e_result, e_driver, s_all_jobs, s_page,
                   varsC, varsN, varsT, varsW, varsM, varsP, varsD, varsX, varsR, varsU, varsH>>

\* discover_workday_endpoints: the landing page is requested and, when it
\* arrives, scanned; the list holds the base patterns and what was harvested.
\* An empty list ends the endpoint strategy with no record.
Discover ==
    /\ e_pc = "discover"
    /\ \E outs \in Oracles(max_retries, {NetError, Resp(200, NonJson)}, {Resp(200, NonJson)}), harvested \in 0..MaxHarvested :
          LET call == Enh_make_request(StartCall(max_retries), "GET", outs, max_retries, delay)
          IN  e_nendpoints' = NumBasePatterns + (IF call.result # JNull THEN harvested ELSE 0)
    /\ e_idx' = 1
    /\ e_shape' = 1
    /\ e_pc' = "probe"
    /\ e_trace' = Append(e_trace, Ev("test_api_endpoint", 1))
    /\ UNCHANGED <<e_all_jobs, e_offset, e_page, e_pages, e_cons, e_jobs, e_result,
                   e_driver, s_all_jobs, s_page, varsC, varsN, varsT, varsW, varsM, varsP, varsD, varsX, varsR, varsU, varsH>>

\* the 'return []' that ends scrape_with_api when no endpoint classified
NoEndpointJobs_placeholder == <<JNull>>

NoEndpointJobs == <<>>

\* 'if is_working: return self.paginate_api_endpoint(endpoint, sample_data)':
\* the endpoint paginated is the one just tested
Paginated_first(idx) == 1

Paginated(idx) == idx

\* test_api_endpoint, one parameter shape: a hit starts the pagination of
\* this endpoint; after the last shape the next endpoint is tested; after
\* the last endpoint scrape_with_api returns []
Probe ==
    /\ e_pc = "probe"
    /\ \E outs \in Oracles(max_retries, Probe_outcomes, {Resp(200, JList(<<GoodRec(1)>>))}) :
          LET call == Enh_make_request(StartCall(max_retries), "GET", outs, max_retries, delay)
          IN  IF Enh_probe_hit(call)
              THEN /\ e_pc' = "paginate"
                   /\ e_shape' = 1
                   /\ e_trace' = Append(e_trace, Ev("paginate_api_endpoint", Paginated(e_idx)))
                   /\ UNCHANGED <<e_idx, e_jobs>>
              ELSE IF e_shape < NumShapes
              THEN /\ e_shape' = e_shape + 1
                   /\ UNCHANGED <<e_pc, e_idx, e_trace, e_jobs>>
              ELSE IF e_idx < e_nendpoints
              THEN /\ e_idx' = e_idx + 1
                   /\ e_shape' = 1
                   /\ e_trace' = Append(e_trace, Ev("test_api_endpoint", e_idx + 1))
                   /\ UNCHANGED <<e_pc, e_jobs>>
              ELSE /\ e_pc' = "api_returned"
                   /\ e_jobs' = NoEndpointJobs
                   /\ UNCHANGED <<e_idx, e_shape, e_trace>>
    /\ UNCHANGED <<e_nendpoints, e_all_jobs, e_offset, e_page, e_pages, e_cons, e_result,
                   e_driver, s_all_jobs, s_page, varsC, varsN, varsT, varsW, varsM, varsP, varsD, varsX, varsR, varsU, varsH>>

\* 'return self.paginate_api_endpoint(endpoint, sample_data)': the result
\* of the pagination, empty or not, is the result of scrape_with_api
PaginateReturns_retry(all_jobs) == IF all_jobs = <<>> THEN "probe" ELSE "api_returned"

PaginateReturns(all_jobs) == "api_returned"

PageEntry(call, norm, stop) ==
    [offset |-> e_offset, fetched |-> norm > 0, raw |-> Enh_raw_count(call),
     norm |-> norm, stop |-> stop,
     kind |-> IF Enh_usable(call) THEN BodyKind(call.result.body, containers) ELSE "none",
     titled |-> IF Enh_usable(call) /\ ~Enh_json_fails(call.result)
                THEN TitledCount(Enh_raw_jobs(call.result.body)) ELSE 0,
     ids |-> JobIds(Enh_page_jobs(call, now))]

\* paginate_api_endpoint, one request of one page: jobs found extend
\* all_jobs and end the page (a short list ends the pagination); no jobs
\* moves on to the next shape; after the last shape the pagination ends
PaginateRequest ==
    /\ e_pc = "paginate"
    /\ Len(e_pages) < MaxPages
    /\ \E outs \in Oracles(max_retries, Enh_outcomes(e_offset), {FullPage(e_offset)}) :
          \E call \in {Enh_make_request(StartCall(max_retries), "GET", outs, max_retries, delay)} :
          \E jobs \in {Enh_page_jobs(call, now)} :
              /\ e_cons' = { u \in e_cons :
                               /\ Enh_usable(call)
                               /\ HonorsBody(call.result.body, u.N,
                                             StartOf(u.reads, e_shape, e_offset)) }
              /\ IF jobs # <<>>
                 THEN /\ e_all_jobs' = Extend(e_all_jobs, jobs)
                      /\ e_shape' = 1
                      /\ now' = now + 1
                      /\ IF Enh_short_page(jobs)
                         THEN /\ e_pc' = PaginateReturns(Extend(e_all_jobs, jobs))
                              /\ e_jobs' = Extend(e_all_jobs, jobs)
                              /\ e_pages' = Append(e_pages, PageEntry(call, Len(jobs), TRUE))
                              /\ UNCHANGED <<e_offset, e_page>>
                         ELSE /\ e_offset' = Enh_next_offset(e_offset)
                              /\ e_page' = e_page + 1
                              /\ e_pages' = Append(e_pages, PageEntry(call, Len(jobs), FALSE))
                              /\ UNCHANGED <<e_pc, e_jobs>>
                 ELSE IF e_shape < NumShapes
                 THEN /\ e_shape' = e_shape + 1
                      /\ UNCHANGED <<e_pc, e_all_jobs, e_offset, e_page, e_pages, e_jobs, now>>
                 ELSE /\ e_pc' = PaginateReturns(e_all_jobs)
                      /\ e_jobs' = e_all_jobs
                      /\ e_pages' = Append(e_pages, PageEntry(call, 0, TRUE))
                      /\ now' = now + 1
                      /\ UNCHANGED <<e_all_jobs, e_offset, e_page, e_shape>>
    /\ UNCHANGED <<e_trace, e_nendpoints, e_idx, e_result, e_driver, s_all_jobs, s_page,
                   max_retries, delay, varsN, varsT, varsW, varsM, varsP, varsD, varsX, varsR, varsU, varsH>>

\* scrape_jobs after scrape_with_api: 'if jobs: return jobs'
ReturnsApiJobs_several(jobs) == Len(jobs) > 1

ReturnsApiJobs(jobs) == jobs # <<>>

AfterApi ==
    /\ e_pc = "api_returned"
    /\ IF ReturnsApiJobs(e_jobs)
       THEN /\ e_pc' = "done"
            /\ e_result' = JList(e_jobs)
            /\ e_trace' = Append(e_trace, Ev("return", Len(e_jobs)))
       ELSE /\ e_pc' = "setup_driver"
            /\ e_trace' = Append(e_trace, Ev("scrape_with_selenium", 0))
            /\ UNCHANGED e_result
    /\ UNCHANGED <<e_nendpoints, e_idx, e_shape, e_all_jobs, e_offset, e_page, e_pages,
                   e_cons, e_jobs, e_driver, s_all_jobs, s_page,
                   varsC, varsN, varsT, varsW, varsM, varsP, varsD, varsX, varsR, varsU, varsH>>

\* 'if not self.setup_selenium_driver(): return []' at the head of
\* scrape_with_selenium, given what the setup returned
AfterSetup_unchecked(ready) == "driver_get"

AfterSetup(ready) == IF ready THEN "driver_get" ELSE "selenium_returned"

\* the calls setup_selenium_driver logs: the driver created, the setup failed
SetupEvents(outcome) ==
    (IF outcome \in {"script_error", "ok"} THEN <<Ev("driver_created", 0)>> ELSE <<>>)
        \o (IF outcome # "ok" THEN <<Ev("setup_failed", 0)>> ELSE <<>>)

\* setup_selenium_driver: an import fails, the driver fails to start, the
\* script run on the new driver fails, or the driver is ready; on each
\* failure scrape_with_selenium returns [] at once
SetupDriver ==
    /\ e_pc = "setup_driver"
    /\ \E outcome \in {"import_error", "start_error", "script_error", "ok"} :
          /\ e_driver' = IF outcome \in {"script_error", "ok"} THEN "open" ELSE e_driver
          /\ e_trace' = e_trace \o SetupEvents(outcome)
          /\ IF AfterSetup(outcome = "ok") = "driver_get"
             THEN e_pc' = "driver_get" /\ UNCHANGED e_jobs
             ELSE e_pc' = "selenium_returned" /\ e_jobs' = <<>>
    /\ UNCHANGED <<e_nendpoints, e_idx, e_shape, e_all_jobs, e_offset, e_page, e_pages,
                   e_cons, e_result, s_all_jobs, s_page, varsC, varsN, varsT, varsW, varsM, varsP, varsD, varsX, varsR, varsU, varsH>>

\* the 'finally' of scrape_with_selenium: self.driver.quit()
QuitDriver(trace) == Append(trace, Ev("driver.quit", 0))

\* 'except Exception: ... return []' of scrape_with_selenium: the exception
\* ends the call with the value []
SeleniumExcept_propagates == [pc |-> "raised", jobs |-> <<>>]

SeleniumExcept == [pc |-> "selenium_returned", jobs |-> <<>>]

\* the imports and self.driver.get(self.base_url): an exception is caught,
\* [] is returned and the driver is quit
DriverGet ==
    /\ e_pc = "driver_get"
    /\ \E raises \in BOOLEAN :
          IF raises
          THEN /\ e_pc' = SeleniumExcept.pc
               /\ e_jobs' = SeleniumExcept.jobs
               /\ e_driver' = "quit"
               /\ e_trace' = QuitDriver(Append(e_trace, Ev("driver.get", 0)))
          ELSE /\ e_pc' = "selenium_page"
               /\ e_trace' = Append(e_trace, Ev("driver.get", 0))
               /\ UNCHANGED <<e_jobs, e_driver>>
    /\ UNCHANGED <<e_nendpoints, e_idx, e_shape, e_all_jobs, e_offset, e_page, e_pages,
                   e_cons, e_result, s_all_jobs, s_page, varsC, varsN, varsT, varsW, varsM, varsP, varsD, varsX, varsR, varsU, varsH>>

\* the page loop entered on its own, not from scrape_jobs, is followed for
\* MaxSelLoop pages that show one job or none
SelStandalone == e_trace = <<>>

SelPageBound == IF SelStandalone THEN MaxSelLoop ELSE MaxSelPages

SelElementLists == IF SelStandalone THEN {<<>>, <<ElTitled>>} ELSE ElementLists

\* one iteration of the page loop of scrape_with_selenium: an exception, no
\* job element or no valid job ends the loop; otherwise the jobs extend
\* all_jobs and go_to_next_page decides; leaving the loop returns all_jobs
\* and quits the driver
SeleniumPage ==
    /\ e_pc = "selenium_page"
    /\ s_page <= SelPageBound
    /\ \E raises \in BOOLEAN, elements \in SelElementLists, has_next \in BOOLEAN :
          LET page_jobs == Sel_page_jobs(elements, now)
              more == ~raises /\ page_jobs # <<>> /\ has_next
              all == IF raises THEN s_all_jobs ELSE s_all_jobs \o page_jobs
          IN  /\ s_all_jobs' = all
              /\ IF more
                 THEN /\ s_page' = s_page + 1
                      /\ UNCHANGED <<e_pc, e_jobs, e_driver, e_trace>>
                 ELSE /\ e_pc' = "selenium_returned"
                      /\ e_jobs' = all
                      /\ e_driver' = "quit"
                      /\ e_trace' = QuitDriver(e_trace)
                      /\ UNCHANGED s_page
    /\ now' = now + 1
    /\ UNCHANGED <<e_nendpoints, e_idx, e_shape, e_all_jobs, e_offset, e_page, e_pages,
                   e_cons, e_result, max_retries, delay, varsN, varsT, varsW, varsM, varsP, varsD, varsX, varsR, varsU, varsH>>

\* scrape_jobs after scrape_with_selenium: 'if jobs: return jobs', else
\* 'return []'
AfterSelenium ==
    /\ e_pc = "selenium_returned"
    /\ e_pc' = "done"
    /\ e_result' = JList(e_jobs)
    /\ e_trace' = Append(e_trace, Ev("return", Len(e_jobs)))
    /\ UNCHANGED <<e_nendpoints, e_idx, e_shape, e_all_jobs, e_offset, e_page, e_pages,
                   e_cons, e_jobs, e_driver, s_all_jobs, s_page,
                   varsC, varsN, varsT, varsW, varsM, varsP, varsD, varsX, varsR, varsU, varsH>>

Next ==
    \/ ScrapeJobs
    \/ Discover
    \/ Probe
    \/ PaginateRequest
    \/ AfterApi
    \/ SetupDriver
    \/ DriverGet
    \/ SeleniumPage
    \/ AfterSelenium

Spec == Init /\ [][Next]_vars

\* ------------------------------------------------------------------------
\* Specification SpecPaginate: a call of scrape_jobs_api, or a call of
\* paginate_api_endpoint on its own
\* ------------------------------------------------------------------------
\* a scraper object at the entry of its pagination driver
PaginationEntered ==
    /\ max_retries \in RunRetries
    /\ delay = 2
    /\ now = 0
    /\ IdleN
    /\ IdleT
    /\ IdleM
    /\ IdleP
    /\ IdleD
    /\ IdleR
    /\ IdleU
    /\ IdleH
    /\ \/ /\ w_pc = "loop"
          /\ w_all_jobs = <<>>
          /\ w_offset = 0
          /\ w_pages = <<>>
          /\ w_cons = 0..MaxN
          /\ IdleE
       \/ /\ IdleW
          /\ e_pc = "paginate"
          /\ e_trace = <<Ev("paginate_api_endpoint", 1)>>
          /\ e_nendpoints = NumBasePatterns
          /\ e_idx = 1
          /\ e_shape = 1
          /\ e_all_jobs = <<>>
          /\ e_offset = 0
          /\ e_page = 1
          /\ e_pages = <<>>
          /\ e_cons = Upstreams
          /\ e_jobs = <<>>
          /\ e_result = JNull
          /\ e_driver = "none"
          /\ s_all_jobs = <<>>
          /\ s_page = 1

InitP == PaginationEntered /\ IdleX

\* one iteration of 'while True' of scrape_jobs_api: the request with its
\* retries, the extraction, the extension of all_jobs, the decision to go on
WdPage ==
    /\ w_pc = "loop"
    /\ Len(w_pages) < MaxPages
    /\ \E outs \in Oracles(max_retries, Wd_outcomes(w_offset), {FullPage(w_offset)}) :
          \E call \in {Wd_make_api_request(StartCall(max_retries), outs, max_retries, delay)} :
          \E it \in {Wd_iteration(w_all_jobs, w_offset, call.result, now)} :
              /\ w_pc' = it.pc
              /\ w_all_jobs' = it.all_jobs
              /\ w_offset' = it.offset
              /\ w_pages' = Append(w_pages, it.entry)
              /\ w_cons' = { N \in w_cons : HonorsBody(call.result, N, w_offset) }
    /\ now' = now + 1
    /\ UNCHANGED <<max_retries, delay, varsN, varsT, varsE, varsM, varsP, varsD, varsX, varsR, varsU, varsH>>

NextP == WdPage \/ PaginateRequest

SpecPaginate == InitP /\ [][NextP]_vars

\* ------------------------------------------------------------------------
\* Properties of the record normalizer (SpecNormalize)
\* ------------------------------------------------------------------------
\* C1 (as claimed): a raw record none of whose title-candidate keys holds a
\* non-empty value is normalized to None by both API scrapers.
C1_TitleGate ==
    /\ (n_pc = "enh" /\ ~HasTitleCandidate(job)) => enh_out = JNull
    /\ (n_pc = "wd" /\ ~HasTitleCandidate(job)) => wd_out = JNull

\* C2 (as claimed): a raw JSON object that has a non-empty title candidate
\* is never rejected, whatever the shape of its other fields.
C2_OnlyTitleRejects ==
    /\ (n_pc = "enh" /\ HasTitleCandidate(job)) => enh_out # JNull
    /\ (n_pc = "wd" /\ HasTitleCandidate(job)) => wd_out # JNull

\* the record either normalizer returned in this state, JNull before a
\* normalizer has run
Processed == IF n_pc = "enh" THEN enh_out ELSE IF n_pc = "wd" THEN wd_out ELSE JNull

\* s.rstrip('/').split('/')[-1], the tail segment of a path or URL
TailSegment(s) == SplitLast(StripSlash(s), "/")

\* the job_id the claimed priority gives: the first non-empty explicit
\* identifier field, else the suffix after the last underscore of
\* externalPath or its trailing segment, else the tail segment of the url
ClaimedJobId(j) ==
    LET f == FirstTruthyField(j, Wd_id_fields)
        ep == Get(j, "externalPath")
        u == Get(j, "url")
        from_path == IF Truthy(ep)
                     THEN (IF Contains(ep.s, <<"_">>) THEN SplitLast(ep.s, "_")
                           ELSE TailSegment(ep.s))
                     ELSE <<>>
    IN  IF f # NoField THEN PyStr(j.d[f])
        ELSE IF from_path # <<>> THEN from_path
        ELSE IF Truthy(u) THEN TailSegment(u.s)
        ELSE <<>>

\* externalPath and url are absent or strings
StringPaths(j) ==
    /\ j.t = "dict"
    /\ Get(j, "externalPath").t \in {"null", "str"}
    /\ Get(j, "url").t \in {"null", "str"}

\* C15 (as claimed): process_job_data takes job_id from the first non-empty
\* field among id, jobId, postingId, requisitionId, externalJobId, only then
\* from externalPath, only then from the tail of the URL, in both scrapers
C15_JobIdPriority ==
    (StringPaths(job) /\ Processed # JNull) =>
        Processed.d.job_id = JStr(ClaimedJobId(job))

\* C16 (as claimed): a returned record has an empty job_id only if the raw
\* record has no non-empty explicit identifier field, no externalPath and no
\* url field
C16_JobIdComplete ==
    (StringPaths(job) /\ Processed # JNull /\ Processed.d.job_id = JStr(<<>>)) =>
        /\ FirstTruthyField(job, Wd_id_fields) = NoField
        /\ ~Truthy(Get(job, "externalPath"))
        /\ ~Truthy(Get(job, "url"))

\* the record of the scenario: a title and an externalPath
ScenarioRecord == JDict([title |-> JStr(sEng), externalPath |-> JStr(sPath)])

\* C17 (as claimed): a record with a title and the externalPath
\* /job/<loc>/<slug>_<ID> is normalized by both scrapers to job_id = <ID>
\* and url = base URL followed by the externalPath
C17_ExternalPath ==
    (job = ScenarioRecord /\ n_pc \in {"enh", "wd"}) =>
        /\ Processed # JNull
        /\ Processed.d.job_id = JStr(<<"J","R","4">>)
        /\ Processed.d.url = JStr(base_url \o sPath)

\* ------------------------------------------------------------------------
\* Properties of the transport (SpecTransport)
\* ------------------------------------------------------------------------
\* what the caller gets from a successful attempt
ReturnValue(o) == IF t_kind = "workday" THEN o.body ELSE o

\* the failure of an attempt as C9 words it: an exception or a non-2xx status
C9_ClaimedFailure(o) == o.exc \/ o.status \notin 200..299

\* the failure of an attempt per transport: an exception or a 4xx/5xx status
\* in make_request; an exception, a status other than 200 or a 200 body that
\* is not JSON in make_api_request
C9_Failure(o) ==
    IF t_kind = "workday"
    THEN o.exc \/ o.status # 200 \/ o.body.t = "nonjson"
    ELSE o.exc \/ o.status \in 400..599

RECURSIVE SumSleeps(_)
SumSleeps(ev) ==
    IF ev = <<>> THEN 0
    ELSE (IF Head(ev).e = "sleep" THEN Head(ev).d ELSE 0) + SumSleeps(Tail(ev))

\* every attempt of the call so far has failed and the call is over
FullyFailed ==
    /\ t_call.status = "returned"
    /\ t_call.result = JNull
    /\ \A i \in 1..Len(t_call.outs) : C9_Failure(t_call.outs[i])

\* C10: the k-th failed attempt, k < max_retries, is followed by exactly one
\* sleep of delay * k, which precedes attempt k + 1; the sleeps increase
\* strictly when delay > 0; nothing is slept after the last failed attempt;
\* a fully failing call sleeps delay * max_retries * (max_retries - 1) / 2.
C10_LinearBackoff ==
    LET ev == t_call.events
        outs == t_call.outs
    IN  /\ \A k \in 1..Len(outs) :
              (C9_Failure(outs[k]) /\ k < max_retries) =>
                  /\ Cardinality({i \in 1..Len(ev) : ev[i].e = "sleep" /\ ev[i].k = k}) = 1
                  /\ \E i \in 2..Len(ev) :
                        /\ ev[i] = [e |-> "sleep", k |-> k, d |-> delay * k]
                        /\ ev[i - 1] = [e |-> "req", k |-> k, d |-> 0]
                        /\ (i < Len(ev) => ev[i + 1] = [e |-> "req", k |-> k + 1, d |-> 0])
        /\ \A i \in 1..Len(ev) :
              ev[i].e = "sleep" => (ev[i].k < max_retries /\ C9_Failure(outs[ev[i].k]))
        /\ \A i, j \in 1..Len(ev) :
              (ev[i].e = "sleep" /\ ev[j].e = "sleep" /\ i < j /\ delay > 0)
                  => ev[i].d < ev[j].d
        /\ FullyFailed =>
              /\ Len(outs) = max_retries
              /\ (ev # <<>> => ev[Len(ev)].e = "req")
              /\ 2 * SumSleeps(ev) = delay * max_retries * (max_retries - 1)

\* a fully failing call of three or more attempts with a positive delay
C10_Witness ==
    /\ FullyFailed
    /\ max_retries >= 3
    /\ delay > 0
    /\ SumSleeps(t_call.events) = delay * 3

\* ------------------------------------------------------------------------
\* Properties of the pagination drivers
\* ------------------------------------------------------------------------
PageLog == { w_pages[i] : i \in 1..Len(w_pages) } \cup { e_pages[i] : i \in 1..Len(e_pages) }

\* C3 (as claimed): after fetching a page, paginate_api_endpoint and
\* scrape_jobs_api stop exactly when the page yields zero normalized records
\* or its raw list has fewer than 20 entries; a page of 20 raw records with
\* at least one normalized record is followed by the next offset
C3_TerminationPolicy ==
    \A p \in PageLog :
        p.fetched => (p.stop <=> (p.norm = 0 \/ p.raw < limit))

\* loop iterations begun so far
WdIterations == Len(w_pages) + (IF w_pc = "loop" THEN 1 ELSE 0)

EnhIterations == Len(e_pages) + (IF e_pc = "paginate" THEN 1 ELSE 0)

\* C4 (as claimed): against an upstream of exactly N records that honors
\* offset and page size and answers every request, the pagination loops of
\* scrape_jobs_api and of paginate_api_endpoint take at most ceil(N/20) + 1
\* iterations, and exactly one when the upstream holds no record
C4_TerminationBound ==
    /\ \A N \in w_cons :
          /\ WdIterations <= CeilPages(N) + 1
          /\ (N = 0 /\ w_pages # <<>>) => WdIterations = 1
    /\ \A u \in e_cons :
          /\ EnhIterations <= CeilPages(u.N) + 1
          /\ (u.N = 0 /\ e_pages # <<>>) => EnhIterations = 1

\* ------------------------------------------------------------------------
\* Properties of scrape_jobs
\* ------------------------------------------------------------------------
Events(e) == { i \in 1..Len(e_trace) : e_trace[i].e = e }

Happened(e) == Events(e) # {}

Before(e, f) == \A j \in Events(f) : \E i \in Events(e) : i < j

ApiEvents == Events("scrape_with_api") \cup Events("test_api_endpoint")
                \cup Events("paginate_api_endpoint")

SeleniumEvents == Events("scrape_with_selenium") \cup Events("driver_created")
                     \cup Events("driver.get") \cup Events("driver.quit")

AllNegative == e_pc \notin {"start", "discover", "probe"} /\ ~Happened("paginate_api_endpoint")

\* C5: when every discovered endpoint classifies negatively,
\* scrape_with_selenium is invoked before scrape_jobs returns; scrape_jobs
\* never returns the empty result without having invoked it
C5_Fallback ==
    /\ (AllNegative /\ e_pc = "done") =>
          /\ Happened("scrape_with_selenium")
          /\ Before("scrape_with_selenium", "return")
    /\ e_result = JList(<<>>) => Happened("scrape_with_selenium")

C5_Witness ==
    /\ e_pc = "done"
    /\ AllNegative
    /\ e_result = JList(<<>>)
    /\ Happened("scrape_with_selenium")

\* the endpoint strategy has returned to scrape_jobs and scrape_jobs has
\* taken its decision
Decided == e_pc \in {"setup_driver", "driver_get", "selenium_page", "selenium_returned", "done"}

\* C6: scrape_jobs invokes scrape_with_selenium if and only if
\* scrape_with_api returned no record; when it returned records scrape_jobs
\* returns exactly those and neither starts the markup strategy nor creates
\* a driver
C6_Transitions ==
    /\ Happened("scrape_with_selenium") => Decided
    /\ Decided => (Happened("scrape_with_selenium") <=> e_all_jobs = <<>>)
    /\ (Decided /\ e_all_jobs # <<>>) =>
          /\ e_pc = "done"
          /\ e_result = JList(e_all_jobs)
          /\ SeleniumEvents = {}
          /\ e_driver = "none"

C6_Witness ==
    /\ e_pc = "done"
    /\ Len(e_all_jobs) = 1
    /\ e_result = JList(e_all_jobs)
    /\ ~Happened("scrape_with_selenium")

\* C7: in one call of scrape_jobs, scrape_with_api runs exactly once and
\* first, scrape_with_selenium at most once and only after it, at most one
\* endpoint is paginated, and no strategy is entered again after the other
\* has run
C7_SinglePass ==
    /\ Cardinality(Events("scrape_with_api")) <= 1
    /\ e_trace # <<>> => e_trace[1].e = "scrape_with_api"
    /\ e_pc # "start" => Cardinality(Events("scrape_with_api")) = 1
    /\ Cardinality(Events("scrape_with_selenium")) <= 1
    /\ Cardinality(Events("paginate_api_endpoint")) <= 1
    /\ \A i \in ApiEvents, j \in SeleniumEvents : i < j
    /\ Happened("scrape_with_selenium") => e_pc \notin {"start", "discover", "probe", "paginate", "api_returned"}

C7_Witness ==
    /\ e_pc = "done"
    /\ Happened("paginate_api_endpoint")
    /\ Happened("scrape_with_selenium")
    /\ e_all_jobs = <<>>

\* C8: when both strategies yield no record, scrape_jobs returns the empty
\* list; no exception leaves scrape_jobs
C8_Exhaustion ==
    /\ e_pc # "raised"
    /\ (e_pc = "done" /\ e_all_jobs = <<>> /\ e_jobs = <<>>) => e_result = JList(<<>>)

C8_Witness ==
    /\ e_pc = "done"
    /\ e_result = JList(<<>>)
    /\ Happened("driver.get")
    /\ Happened("driver.quit")
    /\ e_driver = "quit"

\* ------------------------------------------------------------------------
\* Properties of the browser driver
\* ------------------------------------------------------------------------
\* C11 (as claimed): a driver created during the markup attempt has been
\* quit when scrape_with_selenium has returned to scrape_jobs, on every exit
\* path, a failure of setup_selenium_driver after the creation included
C11_BrowserRelease ==
    e_pc \in {"selenium_returned", "done"} => e_driver # "open"

\* ------------------------------------------------------------------------
\* Specification SpecMarkup: a call of SimplePulteJobScraper.scrape_jobs on
\* one of the sites, or the page loop of scrape_with_selenium on its own
\* ------------------------------------------------------------------------
InitM ==
    /\ max_retries = 3
    /\ delay = 1
    /\ now = 0
    /\ IdleN
    /\ IdleT
    /\ IdleW
    /\ IdleP
    /\ IdleD
    /\ IdleR
    /\ IdleU
    /\ IdleH
    /\ IdleX
    /\ \/ /\ m_pc = "loop"
          /\ m_site \in Sites
          /\ m_all_jobs = <<>>
          /\ m_visited_urls = {}
          /\ m_urls_to_visit = <<base_url>>
          /\ m_fetched = <<>>
          /\ IdleE
       \/ /\ IdleM
          /\ e_pc = "selenium_page"
          /\ e_trace = <<>>
          /\ e_nendpoints = 0
          /\ e_idx = 0
          /\ e_shape = 0
          /\ e_all_jobs = <<>>
          /\ e_offset = 0
          /\ e_page = 1
          /\ e_pages = <<>>
          /\ e_cons = {}
          /\ e_jobs = <<>>
          /\ e_result = JNull
          /\ e_driver = "open"
          /\ s_all_jobs = <<>>
          /\ s_page = 1

\* 'while urls_to_visit and len(visited_urls) < 10'
Simple_loop_continues(urls_to_visit, visited_urls) ==
    urls_to_visit # <<>> /\ Cardinality(visited_urls) < PageCap

\* one iteration of the loop of scrape_jobs: a visited URL is skipped; a new
\* one is requested; the jobs of its page extend all_jobs and, when there
\* are any, its pagination URLs extend urls_to_visit
SimplePage ==
    /\ m_pc = "loop"
    /\ Simple_loop_continues(m_urls_to_visit, m_visited_urls)
    /\ LET current_url == Head(m_urls_to_visit)
           rest == Tail(m_urls_to_visit)
           visited == m_visited_urls \cup {current_url}
       IN  IF current_url \in m_visited_urls
           THEN /\ m_urls_to_visit' = rest
                /\ UNCHANGED <<m_all_jobs, m_visited_urls, m_fetched, now>>
           ELSE /\ m_visited_urls' = visited
                /\ m_fetched' = Append(m_fetched, current_url)
                /\ IF ~SiteServes(m_site, current_url)
                   THEN /\ m_urls_to_visit' = rest
                        /\ UNCHANGED <<m_all_jobs, now>>
                   ELSE \E all_elements \in ElementOrders(SiteElements(m_site.jobs, PageNo(current_url))) :
                          LET page_jobs == parse_jobs_from_html(all_elements, now)
                              pagination_urls ==
                                  find_pagination_urls(SiteHrefs(m_site.links, PageNo(current_url)),
                                                       current_url)
                          IN  /\ m_all_jobs' = m_all_jobs \o page_jobs
                              /\ m_urls_to_visit' =
                                    IF page_jobs # <<>>
                                    THEN Simple_enqueue(pagination_urls, visited, rest)
                                    ELSE rest
                              /\ now' = now + 1
    /\ UNCHANGED <<m_pc, m_site, max_retries, delay, varsN, varsT, varsW, varsE, varsP, varsD, varsX, varsR, varsU, varsH>>

\* the loop condition fails: 'return all_jobs'
SimpleReturn ==
    /\ m_pc = "loop"
    /\ ~Simple_loop_continues(m_urls_to_visit, m_visited_urls)
    /\ m_pc' = "done"
    /\ UNCHANGED <<m_site, m_all_jobs, m_visited_urls, m_urls_to_visit, m_fetched,
                   varsC, varsN, varsT, varsW, varsE, varsP, varsD, varsX, varsR, varsU, varsH>>

NextM == SimplePage \/ SimpleReturn \/ SeleniumPage

SpecMarkup == InitM /\ [][NextM]_vars

\* ------------------------------------------------------------------------
\* Specification SpecProbe: one call of test_api_endpoint
\* ------------------------------------------------------------------------
\* param_sets of test_api_endpoint, by the names of their parameters
Test_param_sets == <<"offset,limit", "from,size", "page,pageSize", "">>

\* what the upstream may answer one request of test_api_endpoint with
Test_outcomes ==
    Probe_outcomes \cup
    { Resp(200, JNull),
      Resp(200, JList(<<>>)),
      Resp(200, JList(<<JDict([name |-> JStr(sEng)])>>)),
      Resp(200, JDict([jobs |-> JList(<<JStr(sEng)>>)])),
      Resp(200, JDict([data |-> JDict([total |-> JNum(0)])])),
      Resp(200, JDict([items |-> JList(<<GoodRec(1)>>)])),
      Resp(200, JDict([results |-> JList(<<>>), id |-> JNum(1)])) }

InitPr ==
    /\ max_retries = 3
    /\ delay = 1
    /\ now = 0
    /\ IdleN
    /\ IdleT
    /\ IdleW
    /\ IdleE
    /\ IdleM
    /\ IdleD
    /\ IdleR
    /\ IdleU
    /\ IdleH
    /\ IdleX
    /\ p_pc = "testing"
    /\ p_shape = 1
    /\ p_log = <<>>
    /\ p_ret = NoReturn

\* what is_job_data said of the body of a response, "skipped" when the
\* response was not usable or not JSON and is_job_data was not called
Test_classified(call) ==
    IF Enh_usable(call) /\ ~Enh_json_fails(call.result)
    THEN (IF is_job_data(call.result.body) THEN "job" ELSE "other")
    ELSE "skipped"

\* the loop over param_sets is left: by 'return True, data' at a hit, by
\* its end after the last parameter set
Test_done_exhaustive(hit, shape) == shape = NumShapes

Test_done(hit, shape) == hit \/ shape = NumShapes

\* test_api_endpoint, one parameter set: the request, the classification of
\* its body, 'return True, data' at a hit, 'return False, None' after the
\* last set
TestShape ==
    /\ p_pc = "testing"
    /\ \E outs \in Oracles(max_retries, Test_outcomes, {Resp(200, JList(<<GoodRec(1)>>))}) :
          LET call == Enh_make_request(StartCall(max_retries), "GET", outs, max_retries, delay)
              hit == Enh_probe_hit(call)
          IN  /\ p_log' = Append(p_log, [params |-> Test_param_sets[p_shape],
                                         response |-> call.result,
                                         classified |-> Test_classified(call)])
              /\ IF Test_done(hit, p_shape)
                 THEN /\ p_pc' = "returned"
                      /\ p_ret' = IF hit THEN [is_working |-> TRUE, data |-> call.result.body]
                                  ELSE NoReturn
                      /\ UNCHANGED p_shape
                 ELSE /\ p_shape' = p_shape + 1
                      /\ UNCHANGED <<p_pc, p_ret>>
    /\ UNCHANGED <<varsC, varsN, varsT, varsW, varsE, varsM, varsD, varsX, varsR, varsU, varsH>>

NextPr == TestShape

SpecProbe == InitPr /\ [][NextPr]_vars

\* ------------------------------------------------------------------------
\* Specification SpecDiscover: one call of discover_workday_endpoints
\* ------------------------------------------------------------------------
\* base_patterns
base_patterns ==
    << base_url \o <<"/","j","o","b","s">>,
       base_url \o <<"/","j","o","b","S","e","a","r","c","h">>,
       base_url \o <<"/","w","d","a","y","/","c","x","s","/","p","u","l","t","e","g","r","o","u","p","/","P","G","I","/","j","o","b","s">>,
       <<"h","t","t","p","s",":","/","/","p","u","l","t","e","g","r","o","u","p",".","w","d","1",".","m","y","w","o","r","k","d","a","y","j","o","b","s",".","c","o","m","/","w","d","a","y","/","c","x","s","/","p","u","l","t","e","g","r","o","u","p","/","P","G","I","/","j","o","b","s">> >>

sJobs == <<"j","o","b","s">>

sSearch == <<"s","e","a","r","c","h">>

\* a quoted string of the page: the key it is the value of ("" for none)
\* and its text
Quoted(key, text) == [key |-> key, text |-> text]

\* re.findall(pattern, content, re.IGNORECASE) for the three api_patterns:
\* a quoted string with 'jobs' or 'search' in it; the value of 'endpoint';
\* the value of 'url' with 'jobs' in it
RECURSIVE FindAll(_, _)
FindAll(pattern, content) ==
    IF content = <<>> THEN <<>>
    ELSE LET q == Head(content)
             low == Lower(q.text)
             found ==
                 CASE pattern = 1 -> Contains(low, sJobs) \/ Contains(low, sSearch)
                   [] pattern = 2 -> q.key = "endpoint" /\ q.text # <<>>
                   [] OTHER       -> q.key = "url" /\ Contains(low, sJobs)
         IN  (IF found THEN <<q.text>> ELSE <<>>) \o FindAll(pattern, Tail(content))

\* 'for match in matches': a rooted match is joined to base_url, an http
\* match is kept, any other is dropped
RECURSIVE Harvest(_)
Harvest(matches) ==
    IF matches = <<>> THEN <<>>
    ELSE LET match == Head(matches)
         IN  (IF StartsWith(match, sSlash) THEN <<urljoin(base_url, match)>>
              ELSE IF StartsWith(match, sHttp) THEN <<match>>
              ELSE <<>>) \o Harvest(Tail(matches))

\* 'endpoints' after the loop over api_patterns
Harvested(content) ==
    Harvest(FindAll(1, content)) \o Harvest(FindAll(2, content)) \o Harvest(FindAll(3, content))

\* the elements of l in the order of their first occurrence
RECURSIVE FirstOccurrences(_, _)
FirstOccurrences(l, seen) ==
    IF l = <<>> THEN <<>>
    ELSE IF Head(l) \in seen THEN FirstOccurrences(Tail(l), seen)
    ELSE <<Head(l)>> \o FirstOccurrences(Tail(l), seen \cup {Head(l)})

Reverse(l) == [i \in 1..Len(l) |-> l[Len(l) + 1 - i]]

\* list(set(l)): each element once, in an order the hashing decides; two of
\* the orders
ListOfSet_concat(l) == {l}

ListOfSet(l) == {FirstOccurrences(l, {}), Reverse(FirstOccurrences(l, {}))}

\* quoted strings per landing page in the model
MaxQuoted == 2

QuotedTexts ==
    { <<"/","a","p","i","/","J","o","b","s">>, <<"h","t","t","p","s",":","/","/","x","/","s","e","a","r","c","h">>, <<"j","o","b","s",".","j","s">>, <<"/","P","G","I","/","j","o","b","s">>, <<"/","a","b","o","u","t">> }

QuotedStrings == { Quoted(k, t) : k \in {"", "endpoint", "url"}, t \in QuotedTexts }

Contents == UNION { [1..n -> QuotedStrings] : n \in 0..MaxQuoted }

InitD ==
    /\ max_retries = 3
    /\ delay = 1
    /\ now = 0
    /\ IdleN
    /\ IdleT
    /\ IdleW
    /\ IdleE
    /\ IdleM
    /\ IdleP
    /\ IdleX
    /\ IdleR
    /\ IdleU
    /\ IdleH
    /\ d_pc = "call"
    /\ d_content \in Contents
    /\ d_ret = <<>>

\* discover_workday_endpoints: the landing page is requested; when it
\* arrives its matches are harvested, up to an exception raised on the way
\* (caught, the harvest so far is kept); the list of the set of base
\* patterns and harvest is returned
DiscoverEndpoints ==
    /\ d_pc = "call"
    /\ \E outs \in Oracles(max_retries, {NetError, Resp(404, NonJson), Resp(200, NonJson)},
                           {Resp(200, NonJson)}) :
          LET call == Enh_make_request(StartCall(max_retries), "GET", outs, max_retries, delay)
              all == IF call.result # JNull THEN Harvested(d_content) ELSE <<>>
          IN  \E kept \in 0..Len(all) :
                 /\ d_ret' \in ListOfSet(base_patterns \o SubSeq(all, 1, kept))
                 /\ d_pc' = IF call.result = JNull THEN "returned_unfetched"
                            ELSE IF kept < Len(all) THEN "returned_caught"
                            ELSE "returned"
    /\ UNCHANGED <<d_content, varsC, varsN, varsT, varsW, varsE, varsM, varsP, varsX, varsR, varsU, varsH>>

NextD == DiscoverEndpoints

SpecDiscover == InitD /\ [][NextD]_vars

\* ------------------------------------------------------------------------
\* save_to_csv (the same code in both API scrapers) and main
\* ------------------------------------------------------------------------
fieldnames ==
    <<"job_id", "title", "location", "posting_date", "url", "company", "scraped_at">>

\* s.replace(old, new) for a character old and a string new
RECURSIVE Replace(_, _, _)
Replace(s, old, new) ==
    IF s = <<>> THEN <<>>
    ELSE (IF Head(s) = old THEN new ELSE <<Head(s)>>) \o Replace(Tail(s), old, new)

\* value.strip().replace('\n', ' ').replace('\r', '')
Csv_clean(s) == Replace(Replace(Strip(s), "\n", <<" ">>), "\r", <<>>)

\* the cell csv.DictWriter writes for row[field]: a cleaned string, '' for
\* None, str(value) for any other value
Csv_cell(row_job, field) ==
    LET value == GetDef(row_job, field, JStr(<<>>))
    IN  IF value.t = "str" THEN Csv_clean(value.s)
        ELSE IF value = JNull THEN <<>>
        ELSE PyStr(value)

Csv_row(row_job) == [i \in 1..Len(fieldnames) |-> Csv_cell(row_job, fieldnames[i])]

\* save_to_csv(jobs): the file written; no file for an empty list
save_to_csv(jobs) ==
    IF jobs = <<>> THEN NoFile
    ELSE [written |-> TRUE, header |-> fieldnames,
          rows |-> [i \in 1..Len(jobs) |-> Csv_row(jobs[i])]]

\* ------------------------------------------------------------------------
\* Specification SpecSave: one call of save_to_csv on a list of records
\* ------------------------------------------------------------------------
\* records per list in the model
MaxRows == 2

sAB == <<"A","B">>

\* values of a string field
CsvStrings ==
    { sAB, <<" ","A","B"," ">>, <<"A","\n","B">>, <<"A","\n","\n","B">>, <<"A","\r","B">>,
      <<"A","\r","\n","B">>, <<"A","B","\n">>, <<"A"," ","\n","B">> }

\* records to save: the title is a string, None or a number, the location
\* is absent, empty or a string with a line break
CsvRecords ==
    { JDict(Merge(tp, lp) @@
            [job_id |-> JStr(sJR1), url |-> JStr(<<>>), posting_date |-> JStr(<<>>),
             company |-> JStr(Enh_company), scraped_at |-> JStr(IsoFormat(0))]) :
        tp \in { [title |-> JStr(s)] : s \in CsvStrings } \cup { [title |-> JNull], [title |-> JNum(7)] },
        lp \in { EmptyDict, [location |-> JStr(<<>>)], [location |-> JStr(<<"D","\n","T","X">>)] } }

InitS ==
    /\ max_retries = 3
    /\ delay = 1
    /\ now = 0
    /\ IdleN
    /\ IdleT
    /\ IdleW
    /\ IdleE
    /\ IdleM
    /\ IdleP
    /\ IdleD
    /\ IdleR
    /\ IdleU
    /\ IdleH
    /\ x_pc = "save"
    /\ x_jobs \in UNION { [1..n -> CsvRecords] : n \in 0..MaxRows }
    /\ x_csv = NoFile

SaveToCsv ==
    /\ x_pc = "save"
    /\ x_csv' = save_to_csv(x_jobs)
    /\ x_pc' = "saved"
    /\ UNCHANGED <<x_jobs, varsC, varsN, varsT, varsW, varsE, varsM, varsP, varsD, varsR, varsU, varsH>>

NextS == SaveToCsv

SpecSave == InitS /\ [][NextS]_vars

\* ------------------------------------------------------------------------
\* Specification SpecMain: main around a pagination that an interruption
\* may hit: scrape_jobs_api in main of workday_simple_api.py, and
\* paginate_api_endpoint below scrape_jobs in main of
\* enhanced_pulte_scraper.py
\* ------------------------------------------------------------------------
InitX ==
    /\ PaginationEntered
    /\ x_pc = "scrape"
    /\ x_jobs = <<>>
    /\ x_csv = NoFile

\* KeyboardInterrupt is raised inside the pagination loop: no handler
\* between the loop and main catches it (the handlers there are 'except
\* Exception' and requests' exceptions), the frame that holds all_jobs is
\* left, and main's 'except KeyboardInterrupt' prints a message
Interrupt ==
    /\ x_pc = "scrape"
    /\ \/ /\ w_pc = "loop"
          /\ w_pc' = "interrupted"
          /\ UNCHANGED e_pc
       \/ /\ e_pc = "paginate"
          /\ e_pc' = "interrupted"
          /\ UNCHANGED w_pc
    /\ x_pc' = "interrupted"
    /\ UNCHANGED <<x_jobs, x_csv, w_all_jobs, w_offset, w_pages, w_cons,
                   e_trace, e_nendpoints, e_idx, e_shape, e_all_jobs, e_offset, e_page,
                   e_pages, e_cons, e_jobs, e_result, e_driver, s_all_jobs, s_page,
                   varsC, varsN, varsT, varsM, varsP, varsD, varsR, varsU, varsH>>

\* the scraper has returned a list to main: 'if jobs:' it is saved
MainJobs ==
    /\ x_pc = "scrape"
    /\ \/ w_pc = "done" /\ x_jobs' = w_all_jobs
       \/ e_pc = "api_returned" /\ e_jobs # <<>> /\ x_jobs' = e_jobs
    /\ x_csv' = IF x_jobs' # <<>> THEN save_to_csv(x_jobs') ELSE x_csv
    /\ x_pc' = IF x_jobs' # <<>> THEN "saved" ELSE "no_jobs"
    /\ UNCHANGED <<varsC, varsN, varsT, varsW, varsE, varsM, varsP, varsD, varsR, varsU, varsH>>

\* the scraper has raised: main's 'except Exception' prints the error
MainError ==
    /\ x_pc = "scrape"
    /\ w_pc = "raised"
    /\ x_pc' = "error"
    /\ UNCHANGED <<x_jobs, x_csv, varsC, varsN, varsT, varsW, varsE, varsM, varsP, varsD, varsR, varsU, varsH>>

NextX == WdPage \/ PaginateRequest \/ Interrupt \/ MainJobs \/ MainError

SpecMain == InitX /\ [][NextX]_vars

\* ------------------------------------------------------------------------
\* Specification SpecReplay: a pagination run of either driver, then a
\* second call of the same driver that meets the same answers of the
\* upstream, request by request, at later clock readings
\* ------------------------------------------------------------------------
\* requests of the first run in the model
MaxAsked == 4

\* 'all_jobs = []' at the head of scrape_jobs_api and paginate_api_endpoint:
\* the list is a local of the call, whatever an earlier call collected
Fresh_kept(earlier) == earlier

Fresh(earlier) == <<>>

\* the locals of scrape_jobs_api at the head of 'while True'
Wd_enter(earlier) ==
    [pc |-> "loop", all_jobs |-> Fresh(earlier), offset |-> 0, shape |-> 0, asked |-> <<>>]

\* the locals of paginate_api_endpoint at the head of 'while True'
Enh_enter(earlier) ==
    [pc |-> "paginate", all_jobs |-> Fresh(earlier), offset |-> 0, shape |-> 1, asked |-> <<>>]

\* one request of paginate_api_endpoint with the parameter set in turn,
\* given what make_request returned: the new pc, all_jobs, offset and the
\* parameter set of the next request
Enh_iteration(all_jobs, offset, shape, call, tick) ==
    LET jobs == Enh_page_jobs(call, tick)
    IN  IF jobs # <<>>
        THEN IF Enh_short_page(jobs)
             THEN [pc |-> PaginateReturns(Extend(all_jobs, jobs)),
                   all_jobs |-> Extend(all_jobs, jobs), offset |-> offset, shape |-> 1]
             ELSE [pc |-> "paginate", all_jobs |-> Extend(all_jobs, jobs),
                   offset |-> Enh_next_offset(offset), shape |-> 1]
        ELSE IF shape < NumShapes
        THEN [pc |-> "paginate", all_jobs |-> all_jobs, offset |-> offset, shape |-> shape + 1]
        ELSE [pc |-> PaginateReturns(all_jobs), all_jobs |-> all_jobs, offset |-> offset,
              shape |-> shape]

\* one request of a run, its retries included, against the attempt
\* outcomes outs; the cursor requested is logged
RunStep(driver, run, outs, tick) ==
    IF driver = "workday"
    THEN CHOOSE next \in
            { [pc |-> it.pc, all_jobs |-> it.all_jobs, offset |-> it.offset, shape |-> 0,
               asked |-> Append(run.asked, [shape |-> 0, offset |-> run.offset])] :
              it \in { Wd_iteration(run.all_jobs, run.offset,
                                    Wd_make_api_request(StartCall(max_retries), outs,
                                                        max_retries, delay).result, tick) } } : TRUE
    ELSE CHOOSE next \in
            { [pc |-> it.pc, all_jobs |-> it.all_jobs, offset |-> it.offset, shape |-> it.shape,
               asked |-> Append(run.asked, [shape |-> run.shape, offset |-> run.offset])] :
              it \in { Enh_iteration(run.all_jobs, run.offset, run.shape,
                                     Enh_make_request(StartCall(max_retries), "GET", outs,
                                                      max_retries, delay), tick) } } : TRUE

Running(run) == run.pc \in {"loop", "paginate"}

\* what the upstream may answer an attempt at the given offset with
Replay_outcomes(offset) ==
    { NetError, Resp(200, JNum(7)),
      Resp(200, JDict([jobPostings |-> JList(PageList(offset, limit, {1}, "untitled"))])) }
        \cup { Resp(200, JDict([jobPostings |-> JList(PageList(offset, n, {}, "untitled"))])) :
                  n \in {0, 1, limit} }

InitR ==
    /\ max_retries \in RunRetries
    /\ delay = 2
    /\ now = 0
    /\ IdleN
    /\ IdleT
    /\ IdleW
    /\ IdleE
    /\ IdleM
    /\ IdleP
    /\ IdleD
    /\ IdleX
    /\ IdleU
    /\ IdleH
    /\ r_driver \in {"workday", "enhanced"}
    /\ r_phase = "first"
    /\ r_run = IF r_driver = "workday" THEN Wd_enter(<<>>) ELSE Enh_enter(<<>>)
    /\ r_first = NoRun
    /\ r_tape = <<>>

\* the first run issues one request; the upstream's answers are kept
ReplayRequest ==
    /\ r_phase = "first"
    /\ Running(r_run)
    /\ Len(r_tape) < MaxAsked
    /\ \E outs \in Oracles(max_retries, Replay_outcomes(r_run.offset), {FullPage(r_run.offset)}) :
          /\ r_run' = RunStep(r_driver, r_run, outs, now)
          /\ r_tape' = Append(r_tape, outs)
    /\ now' = now + 1
    /\ UNCHANGED <<r_driver, r_phase, r_first, max_retries, delay,
                   varsN, varsT, varsW, varsE, varsM, varsP, varsD, varsX, varsU, varsH>>

\* the driver is called a second time
ReplayStart ==
    /\ r_phase = "first"
    /\ r_tape # <<>>
    /\ r_phase' = "second"
    /\ r_first' = r_run
    /\ r_run' = IF r_driver = "workday" THEN Wd_enter(r_run.all_jobs)
                ELSE Enh_enter(r_run.all_jobs)
    /\ now' = now + 1
    /\ UNCHANGED <<r_driver, r_tape, max_retries, delay,
                   varsN, varsT, varsW, varsE, varsM, varsP, varsD, varsX, varsU, varsH>>

\* the second run issues one request and meets the answers the first met
ReplayAgain ==
    /\ r_phase = "second"
    /\ Running(r_run)
    /\ Len(r_run.asked) < Len(r_tape)
    /\ r_run' = RunStep(r_driver, r_run, r_tape[Len(r_run.asked) + 1], now)
    /\ now' = now + 1
    /\ UNCHANGED <<r_driver, r_phase, r_first, r_tape, max_retries, delay,
                   varsN, varsT, varsW, varsE, varsM, varsP, varsD, varsX, varsU, varsH>>

NextR == ReplayRequest \/ ReplayStart \/ ReplayAgain

SpecReplay == InitR /\ [][NextR]_vars

\* ------------------------------------------------------------------------
\* Specification SpecParse: SimpleWorkdayAPIJobScraper(base_url), then
\* build_api_url
\* ------------------------------------------------------------------------
sHttps == <<"h","t","t","p","s",":","/","/">>

sWd == <<"w","d">>

sPlatform == <<".","m","y","w","o","r","k","d","a","y","j","o","b","s",".","c","o","m","/">>

sCareers == <<"c","a","r","e","e","r","s">>

\* the longest prefix of s none of whose characters is in stops
RECURSIVE TakeUntil(_, _)
TakeUntil(s, stops) ==
    IF s = <<>> \/ Head(s) \in stops THEN <<>> ELSE <<Head(s)>> \o TakeUntil(Tail(s), stops)

IsDigit(c) == c \in {"0","1","2","3","4","5","6","7","8","9"}

\* the longest prefix of s made of digits
RECURSIVE TakeDigits(_)
TakeDigits(s) ==
    IF s = <<>> \/ ~IsDigit(Head(s)) THEN <<>> ELSE <<Head(s)>> \o TakeDigits(Tail(s))

Drop(s, n) == SubSeq(s, n + 1, Len(s))

\* re.match(r'https://([^.]+)\.wd(\d+)\.myworkdayjobs\.com/([^/?]+)', url):
\* the three groups, or matched FALSE
Wd_match(url) ==
    LET no == [matched |-> FALSE, company |-> <<>>, wd_version |-> <<>>, site_id |-> <<>>]
        r1 == Drop(url, Len(sHttps))
        company == TakeUntil(r1, {"."})
        r2 == Drop(r1, Len(company) + 1)
        r3 == Drop(r2, Len(sWd))
        wd_version == TakeDigits(r3)
        r4 == Drop(r3, Len(wd_version))
        r5 == Drop(r4, Len(sPlatform))
        site_id == TakeUntil(r5, {"/", "?"})
    IN  IF /\ StartsWith(url, sHttps)
           /\ company # <<>>
           /\ Len(company) < Len(r1)
           /\ StartsWith(r2, sWd)
           /\ wd_version # <<>>
           /\ StartsWith(r4, sPlatform)
           /\ site_id # <<>>
        THEN [matched |-> TRUE, company |-> company, wd_version |-> wd_version,
              site_id |-> site_id]
        ELSE no

\* s.replace(old, '') for a string old
RECURSIVE Remove(_, _)
Remove(s, old) ==
    IF s = <<>> THEN <<>>
    ELSE IF StartsWith(s, old) THEN Remove(Drop(s, Len(old)), old)
    ELSE <<Head(s)>> \o Remove(Tail(s), old)

\* s.split(c): the segments between the occurrences of c, at least one
RECURSIVE Split(_, _)
Split(s, c) ==
    LET first == TakeUntil(s, {c})
    IN  IF Len(first) = Len(s) THEN <<first>>
        ELSE <<first>> \o Split(Drop(s, Len(first) + 1), c)

\* parse_workday_url
parse_workday_url(url) ==
    LET match == Wd_match(url)
        parts == Split(Remove(url, sHttps), "/")
        domain == parts[1]
    IN  IF match.matched
        THEN [company |-> match.company, wd_version |-> match.wd_version,
              site_id |-> match.site_id,
              domain |-> match.company \o <<".">> \o sWd \o match.wd_version
                           \o SubSeq(sPlatform, 1, Len(sPlatform) - 1)]
        ELSE [company |-> Split(domain, ".")[1], wd_version |-> <<"1">>,
              site_id |-> IF Len(parts) > 1 THEN parts[2] ELSE sCareers,
              domain |-> domain]

\* build_api_url, from self.company_info
build_api_url(info) ==
    sHttps \o info.domain \o <<"/","w","d","a","y","/","c","x","s","/">> \o info.company
        \o <<"/">> \o info.site_id \o <<"/","j","o","b","s">>

\* the base URLs of the model: a scheme or none, a host or none, a path
UrlSchemes == { sHttps, <<"h","t","t","p",":","/","/">>, <<>> }

UrlHosts ==
    { <<"c",".","w","d","1">> \o SubSeq(sPlatform, 1, Len(sPlatform) - 1),
      <<"c",".","w","d","1","2">> \o SubSeq(sPlatform, 1, Len(sPlatform) - 1),
      <<"c",".","w","d","x">> \o SubSeq(sPlatform, 1, Len(sPlatform) - 1),
      <<"a",".","c",".","w","d","1">> \o SubSeq(sPlatform, 1, Len(sPlatform) - 1),
      <<"h",".","c","o","m">>,
      <<>> }

UrlPaths ==
    { <<>>, <<"/">>, <<"/","S">>, <<"/","S","/">>, <<"/","S","/","j">>, <<"/","S","?","q">>,
      <<"/","e","n","/","S">> }

Urls == { sc \o h \o p : sc \in UrlSchemes, h \in UrlHosts, p \in UrlPaths }

InitU ==
    /\ max_retries = 3
    /\ delay = 2
    /\ now = 0
    /\ IdleN
    /\ IdleT
    /\ IdleW
    /\ IdleE
    /\ IdleM
    /\ IdleP
    /\ IdleD
    /\ IdleX
    /\ IdleR
    /\ IdleH
    /\ u_pc = "new"
    /\ u_url \in Urls
    /\ u_info = NoInfo
    /\ u_api = <<>>

\* __init__: self.company_info = self.parse_workday_url(base_url)
ParseUrl ==
    /\ u_pc = "new"
    /\ u_info' = parse_workday_url(u_url)
    /\ u_pc' = "parsed"
    /\ UNCHANGED <<u_url, u_api, varsC, varsN, varsT, varsW, varsE, varsM, varsP, varsD, varsX,
                   varsR, varsH>>

\* build_api_url
BuildApiUrl ==
    /\ u_pc = "parsed"
    /\ u_api' = build_api_url(u_info)
    /\ u_pc' = "built"
    /\ UNCHANGED <<u_url, u_info, varsC, varsN, varsT, varsW, varsE, varsM, varsP, varsD, varsX,
                   varsR, varsH>>

NextU == ParseUrl \/ BuildApiUrl

SpecParse == InitU /\ [][NextU]_vars

\* ------------------------------------------------------------------------
\* The HTTP attempts and sleeps of a pagination run
\* ------------------------------------------------------------------------
\* pages a logged run may begin
MaxLogPages == 3

\* max_retries of the logged runs
MaxLogRetries == 2

\* 'time.sleep(self.delay)' at the foot of the while loop of either driver
Throttle_none(d, page) == <<>>

Throttle(d, page) ==
    <<[e |-> "sleep", k |-> 0, d |-> d, page |-> page, shape |-> 0, failed |-> FALSE]>>

\* the attempts and backoff sleeps of one call, for the page and the
\* parameter set they were made for; failed marks an attempt that ended in
\* the except clause or without data
Logged(call, page, shape, fails(_)) ==
    [i \in 1..Len(call.events) |->
        [e |-> call.events[i].e, k |-> call.events[i].k, d |-> call.events[i].d,
         page |-> page, shape |-> shape,
         failed |-> call.events[i].e = "req" /\ fails(call.outs[call.events[i].k])]]

\* indexes of the attempts logged
Reqs == { i \in 1..Len(h_log) : h_log[i].e = "req" }

\* the log from the last attempt of the page before the one in hand
Since(page) ==
    LET before == { i \in Reqs : h_log[i].page < page }
    IN  IF before = {} THEN h_log
        ELSE SubSeq(h_log, CHOOSE i \in before : \A j \in before : j <= i, Len(h_log))

\* what the upstream may answer an attempt at the given offset with; the
\* upstream has an answer for one attempt more than max_retries
Log_outcomes(offset) ==
    { NetError, Resp(503, NonJson) }
        \cup { Resp(200, JDict([jobPostings |-> JList(PageList(offset, n, {}, "untitled"))])) :
                  n \in {0, 1, limit} }

InitH ==
    /\ max_retries \in 0..MaxLogRetries
    /\ delay \in 1..MaxDelay
    /\ now = 0
    /\ IdleN
    /\ IdleT
    /\ IdleW
    /\ IdleE
    /\ IdleM
    /\ IdleP
    /\ IdleD
    /\ IdleX
    /\ IdleR
    /\ IdleU
    /\ h_driver \in {"workday", "enhanced"}
    /\ h_run = IF h_driver = "workday" THEN Wd_enter(<<>>) ELSE Enh_enter(<<>>)
    /\ h_page = 1
    /\ h_log = <<>>

\* the log and the page number after one request of the page in hand: the
\* loop sleeps and moves to the next page only when the offset advanced
LogAfter(events, it) ==
    IF Running(it) /\ it.offset # h_run.offset
    THEN [log |-> Since(h_page) \o events \o Throttle(delay, h_page), page |-> h_page + 1]
    ELSE [log |-> Since(h_page) \o events, page |-> h_page]

\* scrape_jobs_api: one iteration of the while loop
WdLoggedPage ==
    /\ h_driver = "workday"
    /\ Running(h_run)
    /\ h_page <= MaxLogPages
    /\ \E outs \in Oracles(max_retries + 1, Log_outcomes(h_run.offset),
                           {FullPage(h_run.offset), Resp(503, NonJson)}) :
          \E call \in {Wd_make_api_request(StartCall(max_retries), outs, max_retries, delay)} :
          \E it \in {Wd_iteration(h_run.all_jobs, h_run.offset, call.result, now)} :
          \E after \in {LogAfter(Logged(call, h_page, 0, Wd_failed), it)} :
              /\ h_run' = [pc |-> it.pc, all_jobs |-> it.all_jobs, offset |-> it.offset,
                           shape |-> 0, asked |-> <<>>]
              /\ h_log' = after.log
              /\ h_page' = after.page
    /\ now' = now + 1
    /\ UNCHANGED <<h_driver, job, enh_out, wd_out, n_pc, max_retries, delay, varsT, varsW, varsE,
                   varsM, varsP, varsD, varsX, varsR, varsU>>

\* paginate_api_endpoint: one request of one page
EnhLoggedRequest ==
    /\ h_driver = "enhanced"
    /\ Running(h_run)
    /\ h_page <= MaxLogPages
    /\ \E outs \in Oracles(max_retries + 1, Log_outcomes(h_run.offset),
                           {FullPage(h_run.offset), Resp(503, NonJson)}) :
          \E call \in {Enh_make_request(StartCall(max_retries), "GET", outs, max_retries, delay)} :
          \E it \in {Enh_iteration(h_run.all_jobs, h_run.offset, h_run.shape, call, now)} :
          \E after \in {LogAfter(Logged(call, h_page, h_run.shape, Enh_failed), it)} :
              /\ h_run' = [pc |-> it.pc, all_jobs |-> it.all_jobs, offset |-> it.offset,
                           shape |-> it.shape, asked |-> <<>>]
              /\ h_log' = after.log
              /\ h_page' = after.page
              /\ now' = IF it.shape = h_run.shape + 1 THEN now ELSE now + 1
    /\ UNCHANGED <<h_driver, job, enh_out, wd_out, n_pc, max_retries, delay, varsT, varsW, varsE,
                   varsM, varsP, varsD, varsX, varsR, varsU>>

NextH == WdLoggedPage \/ EnhLoggedRequest

SpecThrottle == InitH /\ [][NextH]_vars

\* ------------------------------------------------------------------------
\* Properties of the markup strategy (SpecMarkup)
\* ------------------------------------------------------------------------
\* C12 (as claimed): the list SimplePulteJobScraper.scrape_jobs returns
\* never holds two records with the same (title, url), whether the matches
\* come from one page or from different pages of the run
C12_MarkupDedup ==
    m_pc = "done" =>
        \A i, j \in 1..Len(m_all_jobs) :
            (m_all_jobs[i].title = m_all_jobs[j].title /\ m_all_jobs[i].url = m_all_jobs[j].url)
                => i = j

\* C13 (as claimed): a run of the markup strategy visits at most 10 distinct
\* pages and requests no page URL twice, in SimplePulteJobScraper.scrape_jobs
\* and in the page loop of scrape_with_selenium
C13_PageCap ==
    /\ Cardinality(m_visited_urls) <= PageCap
    /\ Len(m_fetched) <= PageCap
    /\ \A i, j \in 1..Len(m_fetched) : m_fetched[i] = m_fetched[j] => i = j
    /\ s_page <= PageCap

\* C14 (as claimed): over one run of SimplePulteJobScraper.scrape_jobs at
\* most 5 pages besides the landing page are followed from pagination links
C14_LinkCap ==
    Cardinality(m_visited_urls \ {base_url}) <= LinkCap

\* ------------------------------------------------------------------------
\* Properties of the endpoint probe (SpecProbe)
\* ------------------------------------------------------------------------
\* a non-empty list whose first element is an object with a job-identifying
\* key
ClaimedJobList(v) ==
    /\ v.t = "list"
    /\ v.l # <<>>
    /\ Head(v.l).t = "dict"
    /\ DOMAIN Head(v.l).d \cap job_fields # {}

\* the classification as claimed
ClaimedJobData(body) ==
    \/ ClaimedJobList(body)
    \/ /\ body.t = "dict"
       /\ \/ \E k \in Range(containers) : k \in DOMAIN body.d /\ ClaimedJobList(body.d[k])
          \/ DOMAIN body.d \cap job_fields # {}

\* C18 (as claimed): is_job_data(body) is true exactly when body is a job
\* list, a dict with a container key whose value is a job list, or a dict
\* with a job-identifying key; a dict whose container holds an empty list or
\* a list of non-job items classifies negatively
C18_Classification ==
    \A i \in 1..Len(p_log) :
        p_log[i].classified # "skipped" =>
            (p_log[i].classified = "job" <=> ClaimedJobData(p_log[i].response.body))

\* the request classified positively
LogHit(entry) == entry.classified = "job"

\* C19: test_api_endpoint issues its requests with the parameter sets
\* {offset,limit}, {from,size}, {page,pageSize}, none in that order, issues
\* none after the first body that classifies as job data and returns
\* (True, that body); it returns (False, None) after all four sets when no
\* body classified as job data
C19_ProbeOrder ==
    /\ Len(p_log) <= NumShapes
    /\ \A i \in 1..Len(p_log) :
          /\ p_log[i].params = <<"offset,limit", "from,size", "page,pageSize", "">>[i]
          /\ LogHit(p_log[i]) => i = Len(p_log)
    /\ p_pc = "returned" =>
          IF LogHit(p_log[Len(p_log)])
          THEN p_ret = [is_working |-> TRUE, data |-> p_log[Len(p_log)].response.body]
          ELSE /\ Len(p_log) = NumShapes
               /\ p_ret = [is_working |-> FALSE, data |-> JNull]
    /\ p_pc = "testing" => (p_log = <<>> \/ ~LogHit(p_log[Len(p_log)]))

\* a hit at the second parameter set after a non-job JSON body, and a call
\* that returned (False, None) after a non-job JSON body, a non-JSON body,
\* a failed request and a 204
C19_Witness ==
    \/ /\ p_pc = "returned"
       /\ Len(p_log) = 2
       /\ p_log[1].response = Resp(200, StatusOk)
       /\ p_ret.is_working
    \/ /\ p_pc = "returned"
       /\ ~p_ret.is_working
       /\ Len(p_log) = NumShapes
       /\ p_log[1].response = Resp(200, StatusOk)
       /\ p_log[2].response = Resp(200, NonJson)
       /\ p_log[3].response = JNull

\* ------------------------------------------------------------------------
\* Properties of the endpoint discovery (Spec)
\* ------------------------------------------------------------------------
\* C20: in scrape_with_api the endpoints are tested in list order; once one
\* classifies positively no further endpoint is tested, that endpoint is
\* the only one paginated, and what its pagination returns, empty or not,
\* is what scrape_with_api returns
C20_FirstHit ==
    /\ \A i \in Events("test_api_endpoint") :
          e_trace[i].n = Cardinality({ k \in Events("test_api_endpoint") : k <= i })
    /\ Cardinality(Events("paginate_api_endpoint")) <= 1
    /\ \A j \in Events("paginate_api_endpoint") :
          /\ \A i \in Events("test_api_endpoint") : i < j
          /\ e_trace[j].n = Cardinality(Events("test_api_endpoint"))
    /\ (Happened("paginate_api_endpoint") /\ e_pc = "api_returned")
          => e_jobs = e_all_jobs
    /\ Happened("paginate_api_endpoint") => e_pc # "probe"

\* the second endpoint of a longer list classified positively, its
\* pagination returned no record, and scrape_with_api has returned
C20_Witness ==
    /\ e_pc = "api_returned"
    /\ \E j \in Events("paginate_api_endpoint") : e_trace[j].n = 2
    /\ Cardinality(Events("test_api_endpoint")) = 2
    /\ e_nendpoints > 2
    /\ e_jobs = <<>>

\* ------------------------------------------------------------------------
\* Properties of the endpoint discovery call (SpecDiscover)
\* ------------------------------------------------------------------------
\* no quoted string of the page is matched by a pattern and kept
NoHarvest == Harvested(d_content) = <<>>

\* C21: discover_workday_endpoints returns a list (it never raises) that
\* holds each base pattern and no URL twice; when the landing page could not
\* be fetched, or none of its strings matches and is kept, the list holds
\* the base patterns and nothing else
C21_BestEffort ==
    d_pc # "call" =>
        /\ d_pc \in {"returned", "returned_caught", "returned_unfetched"}
        /\ Range(base_patterns) \subseteq Range(d_ret)
        /\ \A i, j \in 1..Len(d_ret) : d_ret[i] = d_ret[j] => i = j
        /\ (d_pc = "returned_unfetched" \/ NoHarvest) => Range(d_ret) = Range(base_patterns)

\* a page whose harvest repeats a base pattern and itself, and a page that
\* could not be fetched although it holds matches
C21_Witness ==
    \/ /\ d_pc = "returned"
       /\ Len(Harvested(d_content)) >= 3
       /\ \E i \in 1..Len(Harvested(d_content)) : Harvested(d_content)[i] = base_patterns[1]
       /\ Len(d_ret) = Len(base_patterns) + 1
    \/ /\ d_pc = "returned_unfetched"
       /\ ~NoHarvest
       /\ Len(d_ret) = Len(base_patterns)

\* ------------------------------------------------------------------------
\* Properties of the pagination drivers: error handling (SpecPaginate)
\* ------------------------------------------------------------------------
\* the page's body is not JSON, or is JSON of a shape the driver knows no
\* container for: for scrape_jobs_api anything but an object with
\* jobPostings, for paginate_api_endpoint anything but a list or an object
\* with a container key
Wd_malformed(p) == p.kind \in {"nonjson", "list", "scalar", "no_container"}

Enh_malformed(p) == p.kind \in {"nonjson", "scalar", "no_container"}

RECURSIVE SumNorm(_)
SumNorm(pages) == IF pages = <<>> THEN 0 ELSE Head(pages).norm + SumNorm(Tail(pages))

\* C22 (as claimed): a page whose body is not JSON, or JSON of no
\* recognized shape, counts as a page of zero records: the driver raises
\* nothing and returns the records accumulated so far
C22_MalformedNoData ==
    /\ \A i \in 1..Len(w_pages) :
          Wd_malformed(w_pages[i]) =>
              /\ w_pages[i].norm = 0
              /\ w_pages[i].stop
              /\ i = Len(w_pages)
              /\ w_pc = "done"
              /\ Len(w_all_jobs) = SumNorm(w_pages)
    /\ \A i \in 1..Len(e_pages) :
          Enh_malformed(e_pages[i]) =>
              /\ e_pages[i].norm = 0
              /\ e_pages[i].stop
              /\ i = Len(e_pages)
              /\ e_pc = "api_returned"
              /\ e_jobs = e_all_jobs
              /\ Len(e_all_jobs) = SumNorm(e_pages)

\* C23 (as claimed): a page with a raw record that has no extractable
\* title still yields every record of the page that has a title, and the
\* run is not aborted: a page of 20 raw records is followed by the request
\* of the next page
C23_DroppedAlone ==
    \A p \in PageLog :
        (p.titled >= 1 /\ p.titled < p.raw) =>
            /\ p.norm >= p.titled
            /\ p.raw = limit => ~p.stop

\* ------------------------------------------------------------------------
\* Properties of main and save_to_csv (SpecMain, SpecSave)
\* ------------------------------------------------------------------------
\* the records the interrupted pagination had accumulated
Accumulated == IF w_pc = "interrupted" THEN w_all_jobs ELSE e_all_jobs

\* C24 (as claimed): when KeyboardInterrupt arrives while the pagination
\* has accumulated at least one record, the records are kept and
\* save_to_csv is attempted on them before the program ends
C24_Salvage ==
    (x_pc = "interrupted" /\ Accumulated # <<>>) =>
        /\ x_csv.written
        /\ Len(x_csv.rows) = Len(Accumulated)

\* trimmed, and each run of newline and carriage-return characters
\* replaced by one space
RECURSIVE CollapseBreaks(_)
CollapseBreaks(s) ==
    IF s = <<>> THEN <<>>
    ELSE IF Head(s) \in {"\n", "\r"}
         THEN (IF Len(s) > 1 /\ s[2] \in {"\n", "\r"} THEN <<>> ELSE <<" ">>)
                  \o CollapseBreaks(Tail(s))
         ELSE <<Head(s)>> \o CollapseBreaks(Tail(s))

\* the cell as claimed, for a field that is absent or holds a string
ClaimedCell(row_job, field) ==
    IF field \notin DOMAIN row_job.d THEN <<>>
    ELSE CollapseBreaks(Strip(row_job.d[field].s))

\* C27 (as claimed): save_to_csv writes one row per record in list order
\* under the seven columns job_id, title, location, posting_date, url,
\* company, scraped_at; an absent field is written as the empty string; a
\* string is written trimmed, without newline or carriage return, each run
\* of them collapsed to a single space
C27_PersistedRows ==
    (x_pc = "saved" /\ x_jobs # <<>>) =>
        /\ x_csv.written
        /\ x_csv.header = <<"job_id", "title", "location", "posting_date", "url",
                            "company", "scraped_at">>
        /\ Len(x_csv.rows) = Len(x_jobs)
        /\ \A i \in 1..Len(x_jobs) :
              /\ Len(x_csv.rows[i]) = 7
              /\ \A c \in 1..7 :
                    LET field == x_csv.header[c]
                        cell == x_csv.rows[i][c]
                    IN  (field \notin DOMAIN x_jobs[i].d \/ x_jobs[i].d[field].t = "str") =>
                            /\ cell = ClaimedCell(x_jobs[i], field)
                            /\ \A k \in 1..Len(cell) : cell[k] \notin {"\n", "\r"}

\* the job_ids of the pages of a log, page after page
RECURSIVE PageIds(_)
PageIds(pages) == IF pages = <<>> THEN <<>> ELSE Head(pages).ids \o PageIds(Tail(pages))

\* the pagination stopped at an empty page, a short page, or a page the
\* transport failed on after its retries
StoppedAt(p) == p.stop /\ (p.kind = "none" \/ (p.kind = "container" /\ p.norm < limit))

\* C26: when the pagination stops at an empty page, a short page or a page
\* the transport failed on, the driver has raised nothing and returns the
\* normalized records of the pages before the stop and of the short page,
\* page after page and in upstream order, none lost, moved or repeated
C26_AccumulatedSurvive ==
    /\ (w_pages # <<>> /\ StoppedAt(w_pages[Len(w_pages)]))
          => /\ w_pc = "done"
             /\ JobIds(w_all_jobs) = PageIds(w_pages)
             /\ Len(w_all_jobs) = SumNorm(w_pages)
    /\ (e_pages # <<>> /\ StoppedAt(e_pages[Len(e_pages)]))
          => /\ e_pc = "api_returned"
             /\ e_jobs = e_all_jobs
             /\ JobIds(e_jobs) = PageIds(e_pages)
             /\ Len(e_jobs) = SumNorm(e_pages)

\* a full page at offset 0 and then a page the transport failed on, or an
\* empty page: the 20 records are returned
C26_Witness ==
    /\ w_pc = "done"
    /\ Len(w_pages) = 2
    /\ w_pages[2].kind \in {"none", "container"}
    /\ w_pages[2].norm = 0
    /\ Len(w_all_jobs) = limit

\* ------------------------------------------------------------------------
\* Replay of a pagination run (SpecReplay)
\* ------------------------------------------------------------------------
\* the records without their scraped_at
Unstamped(jobs) ==
    [i \in 1..Len(jobs) |-> [f \in DOMAIN jobs[i].d \ {"scraped_at"} |-> jobs[i].d[f]]]

IsPrefix(s, t) == Len(s) <= Len(t) /\ s = SubSeq(t, 1, Len(s))

ClaimedTitle(j) ==
    LET f == FirstTruthyField(j, <<"title", "jobTitle", "positionTitle", "name", "jobName">>)
    IN  IF f = NoField THEN JStr(<<>>) ELSE j.d[f]

\* the record's only non-empty title candidate is jobName
OnlyJobName(j) ==
    /\ j.t = "dict"
    /\ FirstTruthyField(j, <<"title", "jobTitle", "positionTitle", "name", "jobName">>) = "jobName"

\* C28 (as claimed): the title of a normalized record is the value, as it is
\* or as a stripped string, of the first non-empty key among title, jobTitle,
\* positionTitle, name, jobName; a record whose only title candidate is
\* jobName is returned with that title by both scrapers
C28_TitlePriority ==
    /\ (HasTitleCandidate(job) /\ Processed # JNull) =>
          Processed.d.title \in {ClaimedTitle(job), JStr(Strip(PyStr(ClaimedTitle(job))))}
    /\ (OnlyJobName(job) /\ n_pc \in {"enh", "wd"}) => Processed # JNull

\* locationsText is absent or a string, location is absent or an object with
\* a non-empty name, bulletFields is absent or a list of objects with a type
LocationSources(j) ==
    /\ j.t = "dict"
    /\ Get(j, "locationsText").t \in {"null", "str"}
    /\ \/ Get(j, "location") = JNull
       \/ /\ Get(j, "location").t = "dict"
          /\ Truthy(Get(Get(j, "location"), "name"))
          /\ Get(Get(j, "location"), "name").t = "str"
    /\ \/ Get(j, "bulletFields") = JNull
       \/ /\ Get(j, "bulletFields").t = "list"
          /\ \A i \in 1..Len(Get(j, "bulletFields").l) :
                /\ Get(j, "bulletFields").l[i].t = "dict"
                /\ Get(Get(j, "bulletFields").l[i], "type").t = "str"
                /\ Get(Get(j, "bulletFields").l[i], "value").t = "str"

\* the value of the first entry whose type mentions 'location', else ''
RECURSIVE ClaimedBulletLocation(_)
ClaimedBulletLocation(l) ==
    IF l = <<>> THEN <<>>
    ELSE IF Contains(Lower(Get(Head(l), "type").s), sLocation) THEN Get(Head(l), "value").s
    ELSE ClaimedBulletLocation(Tail(l))

\* the location the claimed priority gives
ClaimedLocation(j) ==
    IF Truthy(Get(j, "locationsText")) THEN Get(j, "locationsText").s
    ELSE IF Get(j, "location") # JNull THEN Get(Get(j, "location"), "name").s
    ELSE IF Get(j, "bulletFields") # JNull THEN ClaimedBulletLocation(Get(j, "bulletFields").l)
    ELSE <<>>

\* C29 (as claimed): the location of a normalized record is locationsText,
\* else the name of the location object, else the value of the first
\* bulletFields entry whose type mentions 'location', else '', and no other
\* key of the raw record is read for it, in both scrapers
C29_LocationPriority ==
    (LocationSources(job) /\ Processed # JNull) =>
        Processed.d.location \in {JStr(ClaimedLocation(job)), JStr(Strip(ClaimedLocation(job)))}

IsSuffix(s, t) == Len(s) <= Len(t) /\ s = SubSeq(t, Len(t) - Len(s) + 1, Len(t))

\* the url of the record the two normalizers return for j, JNull for the
\* one that returns no record
UrlOf(out) == IF out = JNull THEN JNull ELSE out.d.url

\* C30 (as claimed): the url of a normalized record is externalPath resolved
\* against the base URL, else the url field, else a URL made from the
\* job_id, else ''; and the two scrapers give a record the same url
C30_UrlPriority ==
    (StringPaths(job) /\ Processed # JNull) =>
        LET ep == Get(job, "externalPath")
            u == Get(job, "url")
            id == Processed.d.job_id.s
            url == Processed.d.url
        IN  /\ Truthy(ep) => url = JStr(urljoin(base_url, ep.s))
            /\ (~Truthy(ep) /\ Truthy(u)) => url = u
            /\ (~Truthy(ep) /\ ~Truthy(u) /\ id = <<>>) => url = JStr(<<>>)
            /\ (~Truthy(ep) /\ ~Truthy(u) /\ id # <<>>) => IsSuffix(id, url.s)
            /\ (Enh_process_job_data(job, now) # JNull /\ Wd_process_job_data(job, now) # JNull) =>
                  UrlOf(Enh_process_job_data(job, now)) = UrlOf(Wd_process_job_data(job, now))

\* ------------------------------------------------------------------------
\* Base URL parsing (SpecParse)
\* ------------------------------------------------------------------------
\* the URL without its scheme: what follows the first '://', the whole URL
\* when it has none
RECURSIVE AfterScheme(_, _)
AfterScheme(url, rest) ==
    IF Len(rest) < 3 THEN url
    ELSE IF SubSeq(rest, 1, 3) = <<":","/","/">> THEN Drop(rest, 3)
    ELSE AfterScheme(url, Tail(rest))

\* the segments of the URL after its scheme
ClaimedSegments(url) == Split(AfterScheme(url, url), "/")

\* the URL has the form https://{company}.wd{n}.myworkdayjobs.com/{siteId}
IsWorkdayUrl(url) == Wd_match(url).matched

\* C31 (as claimed): a URL https://{company}.wd{n}.myworkdayjobs.com/{siteId}
\* is parsed into company, n, siteId and the domain, and the API URL is
\* https://{domain}/wday/cxs/{company}/{siteId}/jobs; for any other URL the
\* domain and the site_id are the first two segments after the scheme,
\* site_id 'careers' when there is no second segment
C31_BaseUrlParsing ==
    /\ (u_pc \in {"parsed", "built"} /\ IsWorkdayUrl(u_url)) =>
          /\ StartsWith(u_url, sHttps \o u_info.domain \o <<"/">> \o u_info.site_id)
          /\ u_info.domain = u_info.company \o <<".">> \o sWd \o u_info.wd_version
                                \o SubSeq(sPlatform, 1, Len(sPlatform) - 1)
          /\ \A i \in 1..Len(u_info.wd_version) : IsDigit(u_info.wd_version[i])
    /\ (u_pc = "built" /\ IsWorkdayUrl(u_url)) =>
          u_api = sHttps \o u_info.domain \o <<"/","w","d","a","y","/","c","x","s","/">>
                     \o u_info.company \o <<"/">> \o u_info.site_id \o <<"/","j","o","b","s">>
    /\ (u_pc \in {"parsed", "built"} /\ ~IsWorkdayUrl(u_url)) =>
          /\ u_info.domain = ClaimedSegments(u_url)[1]
          /\ u_info.site_id = IF Len(ClaimedSegments(u_url)) > 1
                              THEN ClaimedSegments(u_url)[2] ELSE sCareers

\* ------------------------------------------------------------------------
\* The browser cannot be set up (Spec)
\* ------------------------------------------------------------------------
\* C32: when setup_selenium_driver fails, scrape_with_selenium returns the
\* empty list, raises nothing and loads no page; the markup strategy was
\* entered only because the endpoint strategy had returned no record, and a
\* non-empty result of the endpoint strategy is what scrape_jobs returns
C32_BrowserUnavailable ==
    /\ Happened("setup_failed") =>
          /\ e_pc \in {"selenium_returned", "done"}
          /\ e_jobs = <<>>
          /\ ~Happened("driver.get")
          /\ s_all_jobs = <<>>
          /\ s_page = 1
          /\ e_all_jobs = <<>>
          /\ e_pc = "done" => e_result = JList(<<>>)
    /\ (e_all_jobs # <<>> /\ e_pc = "done") =>
          /\ e_result = JList(e_all_jobs)
          /\ ~Happened("setup_failed")

\* the endpoint strategy paginated an endpoint and got nothing, the setup of
\* the driver failed, scrape_jobs has returned []
C32_Witness ==
    /\ e_pc = "done"
    /\ Happened("paginate_api_endpoint")
    /\ Happened("setup_failed")
    /\ ~Happened("driver_created")
    /\ e_result = JList(<<>>)

\* ------------------------------------------------------------------------
\* The parameter shapes of one page (Spec)
\* ------------------------------------------------------------------------
\* the step in which test_api_endpoint finds job data and the pagination of
\* the endpoint is entered: e_shape is the shape that succeeded, e_shape' the
\* shape of the first request of the first page
ProbeHit == e_pc = "probe" /\ e_pc' = "paginate"

\* a request of paginate_api_endpoint that ended neither the page nor the
\* pagination
ShapeGaveNothing ==
    /\ e_pc = "paginate"
    /\ e_pc' = "paginate"
    /\ e_pages' = e_pages
    /\ e_shape' # e_shape

\* the shapes after the first follow in the order of param_sets, each after
\* a request that appended nothing
C33_ShapeOrder ==
    [][ShapeGaveNothing => (e_shape' = e_shape + 1 /\ e_all_jobs' = e_all_jobs)]_vars

\* each page appends the records of at most one request: every step that
\* extends all_jobs ends the page
C33_OneShapePerPage ==
    [][(e_pc = "paginate" /\ e_all_jobs' # e_all_jobs)
          => (Len(e_pages') = Len(e_pages) + 1
              /\ Len(e_all_jobs') = Len(e_all_jobs) + e_pages'[Len(e_pages')].norm)]_vars

\* C33: on each page of paginate_api_endpoint the first request uses the
\* shape that succeeded during probing (checked on the first page, entered
\* from the probing), the other shapes follow in a fixed order only after a
\* request that produced no record, and the records of at most one shape
\* are appended per page
C33_PerPageShapeRetry ==
    /\ [][ProbeHit => e_shape' = e_shape]_vars
    /\ C33_ShapeOrder
    /\ C33_OneShapePerPage

\* ------------------------------------------------------------------------
\* The throttle between pages (SpecThrottle)
\* ------------------------------------------------------------------------
\* attempts i < j with no attempt between them
Adjacent(i, j) == i < j /\ \A m \in Reqs : ~(i < m /\ m < j)

\* C34: in both drivers exactly one sleep, of self.delay seconds, lies
\* between the last attempt of a page and the first attempt of the next
\* page, and nothing is slept after the last attempt of the page on which
\* the pagination stops
C34_InterPageThrottle ==
    /\ \A i, j \in Reqs :
          (Adjacent(i, j) /\ h_log[i].page # h_log[j].page) =>
              /\ h_log[j].page = h_log[i].page + 1
              /\ j = i + 2
              /\ h_log[i + 1].e = "sleep"
              /\ h_log[i + 1].d = delay
    /\ (Running(h_run) /\ h_page > 1) =>
          \E i \in 1..Len(h_log) : h_log[i].e = "sleep" /\ h_log[i].page = h_page - 1
                                      /\ h_log[i].k = 0
    /\ ~Running(h_run) =>
          /\ \A i \in 1..Len(h_log) : h_log[i].page = h_page => h_log[i].k # 0
          /\ h_log # <<>> => h_log[Len(h_log)].e = "req"

\* a run of either driver that went through a page, slept and has made the
\* first attempt of the next page
C34_Witness ==
    \E i, j \in Reqs : Adjacent(i, j) /\ h_log[i].page = 1 /\ h_log[j].page = 2

\* a run that stopped on its second page after a retried attempt
C34_WitnessStop ==
    /\ ~Running(h_run)
    /\ h_page = 2
    /\ \E i \in Reqs : h_log[i].page = 2 /\ h_log[i].k = 2

\* ------------------------------------------------------------------------
\* The attempts of one page (SpecThrottle)
\* ------------------------------------------------------------------------
\* the attempts logged for a page
AttemptsOf(page) == { i \in Reqs : h_log[i].page = page }

\* the sets of parameters one page may be requested with
ShapesOf(driver) == IF driver = "enhanced" THEN NumShapes ELSE 1

\* C37: for one page paginate_api_endpoint makes at most 4 * max_retries
\* HTTP attempts and scrape_jobs_api at most max_retries, at most
\* max_retries for one set of parameters; a page is followed by another
\* only after an attempt that did not fail, and a page whose attempts all
\* failed ends the pagination
C37_RequestBudget ==
    /\ Cardinality(AttemptsOf(h_page)) <= ShapesOf(h_driver) * max_retries
    /\ \A sh \in 0..NumShapes :
          Cardinality({ i \in AttemptsOf(h_page) : h_log[i].shape = sh }) <= max_retries
    /\ \A i \in Reqs :
          (h_log[i].page < h_page /\ \A j \in AttemptsOf(h_log[i].page) : j <= i)
              => ~h_log[i].failed
    /\ h_page > 1 => AttemptsOf(h_page - 1) # {}
    /\ (AttemptsOf(h_page) # {}
          /\ Cardinality(AttemptsOf(h_page)) = ShapesOf(h_driver) * max_retries
          /\ \A i \in AttemptsOf(h_page) : h_log[i].failed) => ~Running(h_run)

\* every attempt of the second page of paginate_api_endpoint failed: the
\* page used its whole budget and the pagination returned
C37_Witness ==
    /\ h_driver = "enhanced"
    /\ h_page = 2
    /\ max_retries = 2
    /\ Cardinality(AttemptsOf(2)) = 8
    /\ \A i \in AttemptsOf(2) : h_log[i].failed
    /\ ~Running(h_run)

\* the same for scrape_jobs_api
C37_WitnessWorkday ==
    /\ h_driver = "workday"
    /\ h_page = 2
    /\ Cardinality(AttemptsOf(2)) = 2
    /\ \A i \in AttemptsOf(2) : h_log[i].failed
    /\ ~Running(h_run)

\* ------------------------------------------------------------------------
\* The exits of the pagination loop (SpecPaginate)
\* ------------------------------------------------------------------------
\* every page logged so far gave a full page of normalized records
AllFull(pages) == \A i \in 1..Len(pages) : pages[i].norm = limit /\ pages[i].titled = limit

\* the page ended the loop with no record, or with fewer than limit
\* records; a page the transport failed on has no record
ClaimedExit(p) == p.norm = 0 \/ p.norm < limit

\* against full pages the loop goes on: after k full pages either driver is
\* at the head of its loop with offset k * limit, about to request page k + 1
C35_FullPagesGoOn ==
    /\ (w_pc # "idle" /\ AllFull(w_pages)) =>
          /\ w_pc = "loop"
          /\ w_offset = limit * Len(w_pages)
          /\ \A i \in 1..Len(w_pages) : ~w_pages[i].stop
    /\ (e_pc # "idle" /\ AllFull(e_pages)) =>
          /\ e_pc = "paginate"
          /\ e_offset = limit * Len(e_pages)
          /\ \A i \in 1..Len(e_pages) : ~e_pages[i].stop

\* paginate_api_endpoint leaves its loop only on a page without records or
\* on a short page
C35_EnhancedExits ==
    /\ e_pc \in {"idle", "paginate", "api_returned"}
    /\ \A i \in 1..Len(e_pages) :
          /\ e_pages[i].stop <=> ClaimedExit(e_pages[i])
          /\ e_pages[i].stop <=> (i = Len(e_pages) /\ e_pc = "api_returned")

\* C35: the pagination loop of either driver is left only by the break of a
\* page without records (in scrape_jobs_api also a failed transport) or of
\* a short page, and against an upstream of full pages of 20 titled records
\* it is never left: after any number of pages the next one is requested
C35_NoPageBound ==
    /\ w_pc \in {"idle", "loop", "done"}
    /\ \A i \in 1..Len(w_pages) :
          /\ w_pages[i].stop <=> ClaimedExit(w_pages[i])
          /\ w_pages[i].stop <=> (i = Len(w_pages) /\ w_pc = "done")
    /\ C35_EnhancedExits
    /\ C35_FullPagesGoOn

\* MaxPages full pages were fetched and the driver is about to request the
\* next one
C35_StillRunning ==
    \/ w_pc = "loop" /\ Len(w_pages) = MaxPages /\ AllFull(w_pages)
    \/ e_pc = "paginate" /\ Len(e_pages) = MaxPages /\ AllFull(e_pages)

\* ------------------------------------------------------------------------
\* The cursor of the pagination loop (SpecPaginate)
\* ------------------------------------------------------------------------
\* every page logged held no more raw records than the page size
HonorsLimit(pages) == \A i \in 1..Len(pages) : pages[i].raw <= limit

\* C36: at the head of every iteration offset is 20 times the number of
\* pages completed so far (in paginate_api_endpoint page is offset/20 + 1),
\* the records accumulated are at least offset, exactly offset when no page
\* was longer than the page size, and every step leaves offset alone or
\* adds exactly 20 to it
C36_CursorInvariant ==
    /\ [](w_pc = "loop" =>
            /\ w_offset = limit * Len(w_pages)
            /\ Len(w_all_jobs) >= w_offset
            /\ HonorsLimit(w_pages) => Len(w_all_jobs) = w_offset)
    /\ [](e_pc = "paginate" =>
            /\ e_offset = limit * Len(e_pages)
            /\ e_page = (e_offset \div limit) + 1
            /\ Len(e_all_jobs) >= e_offset
            /\ HonorsLimit(e_pages) => Len(e_all_jobs) = e_offset)
    /\ [][/\ w_offset' \in {w_offset, w_offset + limit}
          /\ e_offset' \in {e_offset, e_offset + limit}]_vars

\* two pages were completed, one of them longer than the page size: the
\* driver is at the head of its third iteration with more records than offset
C36_Witness ==
    \/ w_pc = "loop" /\ Len(w_pages) = 2 /\ w_offset = 2 * limit /\ Len(w_all_jobs) > w_offset
    \/ e_pc = "paginate" /\ Len(e_pages) = 2 /\ e_offset = 2 * limit
          /\ Len(e_all_jobs) > e_offset /\ e_shape = 1

====
